---- MODULE Spec2Model ----
(***************************************************************************)
(* Storage layer of the fitness tracker (server/storage.ts): the          *)
(* in-memory record store MemStorage, the durable store PostgresStorage   *)
(* and the StorageAdapter that falls back from the one to the other.      *)
(***************************************************************************)
EXTENDS Integers, Sequences, FiniteSets, TLC

VARIABLES
    mem,          \* StorageAdapter.memStorage : the six Maps and six id counters
    pg,           \* the tables and serial sequences behind PostgresStorage
    usePostgres,  \* StorageAdapter.usePostgres
    proc,         \* the adapter calls in flight, one per request slot
    last,         \* the most recently completed call: operation, arguments, result
    issued,       \* per entity type, the ids returned by the creates called on MemStorage directly
    nops          \* number of calls started so far

vars == <<mem, pg, usePostgres, proc, last, issued, nops>>

(***************************************************************************)
(* Bounds                                                                  *)
(***************************************************************************)
MaxOps == 3          \* calls made on MemStorage in one behaviour
MaxAdapterOps == 3   \* calls made on the StorageAdapter in one behaviour
MaxSets == 3         \* longest set list of an Exercise
MaxWeight == 2       \* largest weight of a set
MaxLimit == 2        \* largest limit passed to getExerciseSets

(***************************************************************************)
(* JavaScript values                                                       *)
(***************************************************************************)
Null == "null"                       \* null in a text column
NullNum == -1                        \* null in an integer / timestamp column
Undefined == [undefined |-> TRUE]    \* the not-found signal of a point lookup
NullObj == [null |-> TRUE]           \* null where an object is expected
Now == 100                           \* the value of new Date()

Has(r, k) == k \in DOMAIN r
\* a || b on strings: "" , null and undefined (absent) are falsy
StrOr(r, k, d) == IF Has(r, k) /\ r[k] # "" /\ r[k] # Null THEN r[k] ELSE d
\* a || b on numbers: 0, null and undefined (absent) are falsy
NumOr(r, k, d) == IF Has(r, k) /\ r[k] # 0 /\ r[k] # NullNum THEN r[k] ELSE d
\* a || b on booleans
BoolOr(r, k, d) == IF Has(r, k) /\ r[k] = TRUE THEN TRUE ELSE d

\* object spread { ...a, ...b }
Spread(a, b) ==
    [k \in (DOMAIN a) \cup (DOMAIN b) |-> IF k \in DOMAIN b THEN b[k] ELSE a[k]]

\* Map.set, Map.delete, Map.has
MapSet(f, k, v) == [x \in (DOMAIN f) \cup {k} |-> IF x = k THEN v ELSE f[x]]
MapDelete(f, k) == [x \in (DOMAIN f) \ {k} |-> f[x]]
EmptyMap == [x \in {} |-> 0]

Min(S) == CHOOSE x \in S : \A y \in S : x <= y
Max(S) == CHOOSE x \in S : \A y \in S : x >= y

RECURSIVE SetToSeq(_)
SetToSeq(S) == IF S = {} THEN <<>> ELSE <<Min(S)>> \o SetToSeq(S \ {Min(S)})

\* [...map.values()] : insertion order, which is the order of the keys
\* because keys are handed out increasingly and Map.set on a present key
\* keeps its position
Values(f) == [i \in 1..Cardinality(DOMAIN f) |-> f[SetToSeq(DOMAIN f)[i]]]

\* Array.prototype.sort with a numeric comparator is stable: elements whose
\* keys compare equal keep their relative order.  s is a sequence of
\* <<key, value>> pairs, sorted by ascending key.
InsertSorted(sorted, x) ==
    LET n == Cardinality({i \in 1..Len(sorted) : sorted[i][1] <= x[1]})
    IN  SubSeq(sorted, 1, n) \o <<x>> \o SubSeq(sorted, n + 1, Len(sorted))

RECURSIVE StableSort(_)
StableSort(s) ==
    IF s = <<>> THEN <<>>
    ELSE InsertSorted(StableSort(SubSeq(s, 1, Len(s) - 1)), s[Len(s)])

\* s.sort((a, b) => key(a) - key(b)), keys[i] being key(s[i])
SortAscBy(s, keys) ==
    LET ps == StableSort([i \in 1..Len(s) |-> <<keys[i], s[i]>>])
    IN  [i \in 1..Len(s) |-> ps[i][2]]

\* s.sort((a, b) => key(b) - key(a)), keys[i] being key(s[i])
SortDescBy(s, keys) ==
    LET ps == StableSort([i \in 1..Len(s) |-> <<0 - keys[i], s[i]>>])
    IN  [i \in 1..Len(s) |-> ps[i][2]]

\* s.slice(start): a negative start counts from the end, and -0 is 0
Slice(s, start) ==
    LET from == IF start < 0 THEN Max({Len(s) + start, 0}) ELSE Min({start, Len(s)})
    IN  SubSeq(s, from + 1, Len(s))

\* the dates, weights or order indexes of the elements of s
Dates(s) == [i \in 1..Len(s) |-> s[i].date]
Weights(s) == [i \in 1..Len(s) |-> s[i].weight]
OrderIndexes(s) == [i \in 1..Len(s) |-> s[i].orderIndex]

(***************************************************************************)
(* MemStorage.  A method is one step: its awaits are on its own, already   *)
(* settled promises, so it runs to its end before the next I/O callback    *)
(* (where the statements of PostgresStorage settle) is dispatched.         *)
(***************************************************************************)
Ret(m, v) == [m |-> m, val |-> v]

\* mutant: oldest first
Mem_getWorkouts_ascending(m) ==
    SortAscBy(Values(m.workouts), Dates(Values(m.workouts)))

Mem_getWorkouts(m) ==
    SortDescBy(Values(m.workouts), Dates(Values(m.workouts)))

Mem_getWorkout(m, id) ==
    IF id \in DOMAIN m.workouts THEN m.workouts[id] ELSE Undefined

\* mutant: the id is derived from the number of stored workouts
Mem_createWorkout_sizeId(m, workout) ==
    LET id == Cardinality(DOMAIN m.workouts) + 1
        newWorkout == Spread(workout, [id |-> id])
    IN  Ret([m EXCEPT !.workoutIdCounter = id + 1,
                      !.workouts = MapSet(@, id, newWorkout)], newWorkout)

Mem_createWorkout(m, workout) ==
    LET id == m.workoutIdCounter
        newWorkout == Spread(workout, [id |-> id])
    IN  Ret([m EXCEPT !.workoutIdCounter = id + 1,
                      !.workouts = MapSet(@, id, newWorkout)], newWorkout)

\* mutant: the existing name is not consulted when the partial has no name
Mem_updateWorkout_noExisting(m, id, workout) ==
    IF id \notin DOMAIN m.workouts THEN Ret(m, Undefined)
    ELSE LET existingWorkout == m.workouts[id]
             workoutWithName ==
                 Spread(workout, [name |-> StrOr(workout, "name", "Unnamed Workout")])
             updatedWorkout == Spread(existingWorkout, workoutWithName)
         IN  Ret([m EXCEPT !.workouts = MapSet(@, id, updatedWorkout)], updatedWorkout)

\* mutant: a plain shallow merge, as in the other update methods
Mem_updateWorkout_plainMerge(m, id, workout) ==
    IF id \notin DOMAIN m.workouts THEN Ret(m, Undefined)
    ELSE LET updatedWorkout == Spread(m.workouts[id], workout)
         IN  Ret([m EXCEPT !.workouts = MapSet(@, id, updatedWorkout)], updatedWorkout)

Mem_updateWorkout(m, id, workout) ==
    IF id \notin DOMAIN m.workouts THEN Ret(m, Undefined)
    ELSE LET existingWorkout == m.workouts[id]
             workoutWithName ==
                 Spread(workout,
                        [name |-> StrOr(workout, "name",
                                        StrOr(existingWorkout, "name", "Unnamed Workout"))])
             updatedWorkout == Spread(existingWorkout, workoutWithName)
         IN  Ret([m EXCEPT !.workouts = MapSet(@, id, updatedWorkout)], updatedWorkout)

\* mutant: the exercises of the workout are not deleted
Mem_deleteWorkout_noCascade(m, id) ==
    Ret([m EXCEPT !.workouts = MapDelete(@, id)], id \in DOMAIN m.workouts)

Mem_deleteWorkout(m, id) ==
    LET exercisesToDelete == {e \in DOMAIN m.exercises : m.exercises[e].workoutId = id}
    IN  Ret([m EXCEPT !.exercises = [e \in (DOMAIN @) \ exercisesToDelete |-> @[e]],
                      !.workouts = MapDelete(@, id)],
            id \in DOMAIN m.workouts)

Mem_getExercises(m, workoutId) ==
    LET OfWorkout(e) == e.workoutId = workoutId
    IN  SelectSeq(Values(m.exercises), OfWorkout)

Mem_getExercise(m, id) ==
    IF id \in DOMAIN m.exercises THEN m.exercises[id] ELSE Undefined

Mem_createExercise(m, exercise) ==
    LET id == m.exerciseIdCounter
        newExercise == Spread(exercise, [id |-> id])
    IN  Ret([m EXCEPT !.exerciseIdCounter = id + 1,
                      !.exercises = MapSet(@, id, newExercise)], newExercise)

Mem_updateExercise(m, id, exercise) ==
    IF id \notin DOMAIN m.exercises THEN Ret(m, Undefined)
    ELSE LET updatedExercise == Spread(m.exercises[id], exercise)
         IN  Ret([m EXCEPT !.exercises = MapSet(@, id, updatedExercise)], updatedExercise)

Mem_deleteExercise(m, id) ==
    Ret([m EXCEPT !.exercises = MapDelete(@, id)], id \in DOMAIN m.exercises)

Mem_getExerciseType(m, id) ==
    IF id \in DOMAIN m.exerciseTypes THEN m.exerciseTypes[id] ELSE Undefined

Mem_createExerciseType(m, exerciseType) ==
    LET id == m.exerciseTypeIdCounter
        newExerciseType ==
            Spread(exerciseType,
                   [id |-> id, created |-> Now,
                    notes |-> StrOr(exerciseType, "notes", Null),
                    description |-> StrOr(exerciseType, "description", Null),
                    category |-> StrOr(exerciseType, "category", Null)])
    IN  Ret([m EXCEPT !.exerciseTypeIdCounter = id + 1,
                      !.exerciseTypes = MapSet(@, id, newExerciseType)], newExerciseType)

Mem_updateExerciseType(m, id, exerciseType) ==
    IF id \notin DOMAIN m.exerciseTypes THEN Ret(m, Undefined)
    ELSE LET existingExerciseType == m.exerciseTypes[id]
             renaming == /\ StrOr(exerciseType, "name", "") # ""
                         /\ exerciseType.name # existingExerciseType.name
             exs == IF renaming
                    THEN [e \in DOMAIN m.exercises |->
                            IF m.exercises[e].name = existingExerciseType.name
                            THEN Spread(m.exercises[e], [name |-> exerciseType.name])
                            ELSE m.exercises[e]]
                    ELSE m.exercises
             gls == IF renaming
                    THEN [g \in DOMAIN m.goals |->
                            IF m.goals[g].exerciseName = existingExerciseType.name
                            THEN Spread(m.goals[g], [exerciseName |-> exerciseType.name])
                            ELSE m.goals[g]]
                    ELSE m.goals
             updatedExerciseType == Spread(existingExerciseType, exerciseType)
         IN  Ret([m EXCEPT !.exercises = exs, !.goals = gls,
                           !.exerciseTypes = MapSet(@, id, updatedExerciseType)],
                 updatedExerciseType)

\* mutant: the exercises named after the type go with it
Mem_deleteExerciseType_cascade(m, id) ==
    LET named == {e \in DOMAIN m.exercises :
                     id \in DOMAIN m.exerciseTypes
                        /\ m.exercises[e].name = m.exerciseTypes[id].name}
    IN  Ret([m EXCEPT !.exerciseTypes = MapDelete(@, id),
                      !.exercises = [e \in (DOMAIN @) \ named |-> @[e]]],
            id \in DOMAIN m.exerciseTypes)

Mem_deleteExerciseType(m, id) ==
    Ret([m EXCEPT !.exerciseTypes = MapDelete(@, id)], id \in DOMAIN m.exerciseTypes)

Mem_getGoal(m, id) ==
    IF id \in DOMAIN m.goals THEN m.goals[id] ELSE Undefined

Mem_createGoal(m, goal) ==
    LET id == m.goalIdCounter
        newGoal ==
            Spread(goal,
                   [id |-> id,
                    exerciseName |-> StrOr(goal, "exerciseName", Null),
                    targetWeight |-> NumOr(goal, "targetWeight", NullNum),
                    targetReps |-> NumOr(goal, "targetReps", NullNum),
                    targetDate |-> NumOr(goal, "targetDate", NullNum),
                    isCompleted |-> BoolOr(goal, "isCompleted", FALSE),
                    currentProgress |-> NumOr(goal, "currentProgress", NullNum)])
    IN  Ret([m EXCEPT !.goalIdCounter = id + 1,
                      !.goals = MapSet(@, id, newGoal)], newGoal)

Mem_updateGoal(m, id, goal) ==
    IF id \notin DOMAIN m.goals THEN Ret(m, Undefined)
    ELSE LET updatedGoal == Spread(m.goals[id], goal)
         IN  Ret([m EXCEPT !.goals = MapSet(@, id, updatedGoal)], updatedGoal)

\* mutant: the answer is false also when the goal was stored
Mem_deleteGoal_answersFalse(m, id) ==
    Ret([m EXCEPT !.goals = MapDelete(@, id)], FALSE)

Mem_deleteGoal(m, id) ==
    Ret([m EXCEPT !.goals = MapDelete(@, id)], id \in DOMAIN m.goals)

Mem_getWorkoutRoutine(m, id) ==
    IF id \in DOMAIN m.workoutRoutines THEN m.workoutRoutines[id] ELSE Undefined

Mem_createWorkoutRoutine(m, routine) ==
    LET id == m.routineIdCounter
        newRoutine ==
            Spread(routine,
                   [id |-> id, created |-> Now,
                    description |-> StrOr(routine, "description", Null),
                    category |-> StrOr(routine, "category", Null)])
    IN  Ret([m EXCEPT !.routineIdCounter = id + 1,
                      !.workoutRoutines = MapSet(@, id, newRoutine)], newRoutine)

Mem_updateWorkoutRoutine(m, id, routine) ==
    IF id \notin DOMAIN m.workoutRoutines THEN Ret(m, Undefined)
    ELSE LET updatedRoutine == Spread(m.workoutRoutines[id], routine)
         IN  Ret([m EXCEPT !.workoutRoutines = MapSet(@, id, updatedRoutine)],
                 updatedRoutine)

\* mutant: the routine exercises are left alone
Mem_deleteWorkoutRoutine_noCascade(m, id) ==
    Ret([m EXCEPT !.workoutRoutines = MapDelete(@, id)], id \in DOMAIN m.workoutRoutines)

Mem_deleteWorkoutRoutine(m, id) ==
    LET routineExercisesToDelete ==
            {re \in DOMAIN m.routineExercises : m.routineExercises[re].routineId = id}
    IN  Ret([m EXCEPT !.routineExercises =
                          [re \in (DOMAIN @) \ routineExercisesToDelete |-> @[re]],
                      !.workoutRoutines = MapDelete(@, id)],
            id \in DOMAIN m.workoutRoutines)

Mem_getRoutineExercises(m, routineId) ==
    LET OfRoutine(re) == re.routineId = routineId
        ofRoutine == SelectSeq(Values(m.routineExercises), OfRoutine)
    IN  SortAscBy(ofRoutine, OrderIndexes(ofRoutine))

Mem_getRoutineExercise(m, id) ==
    IF id \in DOMAIN m.routineExercises THEN m.routineExercises[id] ELSE Undefined

Mem_createRoutineExercise(m, routineExercise) ==
    LET id == m.routineExerciseIdCounter
        newRoutineExercise ==
            Spread(routineExercise,
                   [id |-> id,
                    defaultSets |-> NumOr(routineExercise, "defaultSets", 3),
                    defaultReps |-> NumOr(routineExercise, "defaultReps", NullNum),
                    notes |-> StrOr(routineExercise, "notes", Null)])
    IN  Ret([m EXCEPT !.routineExerciseIdCounter = id + 1,
                      !.routineExercises = MapSet(@, id, newRoutineExercise)],
            newRoutineExercise)

Mem_updateRoutineExercise(m, id, routineExercise) ==
    IF id \notin DOMAIN m.routineExercises THEN Ret(m, Undefined)
    ELSE LET updatedRoutineExercise == Spread(m.routineExercises[id], routineExercise)
         IN  Ret([m EXCEPT !.routineExercises = MapSet(@, id, updatedRoutineExercise)],
                 updatedRoutineExercise)

Mem_deleteRoutineExercise(m, id) ==
    Ret([m EXCEPT !.routineExercises = MapDelete(@, id)],
        id \in DOMAIN m.routineExercises)

\* the for-loop of createWorkoutWithExercises over data.exercises
RECURSIVE Mem_createExercisesFor(_, _, _)
Mem_createExercisesFor(m, workoutId, exerciseData) ==
    IF exerciseData = <<>> THEN Ret(m, <<>>)
    ELSE LET one == Mem_createExercise(m, [workoutId |-> workoutId,
                                            name |-> Head(exerciseData).name,
                                            sets |-> Head(exerciseData).sets])
             rest == Mem_createExercisesFor(one.m, workoutId, Tail(exerciseData))
         IN  Ret(rest.m, <<one.val>> \o rest.val)

Mem_createWorkoutWithExercises(m, data) ==
    LET w == Mem_createWorkout(m, [name |-> data.workout.name,
                                    date |-> data.workout.date,
                                    duration |-> NumOr(data.workout, "duration", NullNum),
                                    notes |-> StrOr(data.workout, "notes", Null)])
        es == Mem_createExercisesFor(w.m, w.val.id, data.exercises)
    IN  Ret(es.m, [workout |-> w.val, exercises |-> es.val])

\* mutant: sorted by ascending weight and the last element taken
HeaviestSet_ascendingLast(sets) ==
    IF sets = <<>> THEN Undefined ELSE SortAscBy(sets, Weights(sets))[Len(sets)]

\* [...sets].sort((a, b) => b.weight - a.weight)[0]
HeaviestSet(sets) ==
    IF sets = <<>> THEN Undefined ELSE SortDescBy(sets, Weights(sets))[1]

\* the flatMap callback of getExerciseHistory
RECURSIVE HistoryPoints(_, _)
HistoryPoints(exs, workoutsMap) ==
    IF exs = <<>> THEN <<>>
    ELSE LET exercise == Head(exs)
             heaviestSet == HeaviestSet(exercise.sets)
             point == IF exercise.workoutId \notin DOMAIN workoutsMap THEN <<>>
                      ELSE IF heaviestSet = Undefined THEN <<>>
                      ELSE <<[date |-> workoutsMap[exercise.workoutId].date,
                              weight |-> heaviestSet.weight,
                              reps |-> heaviestSet.reps]>>
         IN  point \o HistoryPoints(Tail(exs), workoutsMap)

\* mutant: the points are left in the order of the exercises
Mem_getExerciseHistory_unsorted(m, exerciseName) ==
    LET Named(e) == e.name = exerciseName
        allExercises == SelectSeq(Values(m.exercises), Named)
    IN  HistoryPoints(allExercises, m.workouts)

Mem_getExerciseHistory(m, exerciseName) ==
    LET Named(e) == e.name = exerciseName
        allExercises == SelectSeq(Values(m.exercises), Named)
        points == HistoryPoints(allExercises, m.workouts)
    IN  SortAscBy(points, Dates(points))

Mem_getExerciseSets(m, exerciseName, limit) ==
    LET history == Mem_getExerciseHistory(m, exerciseName)
    IN  Slice(history, 0 - limit)

Mem_getLatestExerciseSet(m, exerciseName) ==
    LET Named(e) == e.name = exerciseName
        allExercises == SelectSeq(Values(m.exercises), Named)
        HasWorkout(e) == e.workoutId \in DOMAIN m.workouts
        withWorkout == SelectSeq(allExercises, HasWorkout)
        sortedExercises ==
            SortDescBy(withWorkout,
                       [i \in 1..Len(withWorkout) |->
                           m.workouts[withWorkout[i].workoutId].date])
        latestExercise == sortedExercises[1]
        heaviestSet == HeaviestSet(latestExercise.sets)
    IN  IF allExercises = <<>> THEN NullObj
        ELSE IF sortedExercises = <<>> THEN NullObj
        ELSE IF heaviestSet = Undefined THEN NullObj
        ELSE [weight |-> heaviestSet.weight, reps |-> heaviestSet.reps]

(***************************************************************************)
(* Construction                                                            *)
(***************************************************************************)
EmptyMem ==
    [workouts |-> EmptyMap, exercises |-> EmptyMap, goals |-> EmptyMap,
     exerciseTypes |-> EmptyMap, workoutRoutines |-> EmptyMap,
     routineExercises |-> EmptyMap,
     workoutIdCounter |-> 1, exerciseIdCounter |-> 1, goalIdCounter |-> 1,
     exerciseTypeIdCounter |-> 1, routineIdCounter |-> 1,
     routineExerciseIdCounter |-> 1]

\* new MemStorage(): three sample exercise types and one sample goal
MemStorageNew ==
    LET t1 == Mem_createExerciseType(EmptyMem,
                  [name |-> "Bench Press", description |-> "A classic chest exercise",
                   notes |-> "Keep shoulders back and down", category |-> "Chest"])
        t2 == Mem_createExerciseType(t1.m,
                  [name |-> "Squat", description |-> "The king of leg exercises",
                   notes |-> "Drive through heels", category |-> "Legs"])
        t3 == Mem_createExerciseType(t2.m,
                  [name |-> "Deadlift", description |-> "A full-body pull exercise",
                   notes |-> "Maintain neutral spine", category |-> "Back"])
        g1 == Mem_createGoal(t3.m,
                  [name |-> "Weekly Workouts", targetReps |-> 5,
                   currentProgress |-> 2, isCompleted |-> FALSE])
    IN  g1.m

\* the durable database as the process finds it: one workout stored earlier
DurableDb ==
    [workouts |-> MapSet(EmptyMap, 1, [id |-> 1, name |-> "P", date |-> 1,
                                       duration |-> NullNum, notes |-> Null]),
     exercises |-> EmptyMap,
     workoutsSeq |-> 2, exercisesSeq |-> 1]

Procs == {1, 2}
Idle == [pc |-> "idle"]

IssuedNew ==
    [Workout |-> <<>>, Exercise |-> <<>>, Goal |-> <<1>>,
     ExerciseType |-> <<1, 2, 3>>, WorkoutRoutine |-> <<>>, RoutineExercise |-> <<>>]

Init ==
    /\ mem = MemStorageNew
    /\ pg = DurableDb
    /\ usePostgres = TRUE
    /\ proc = [p \in Procs |-> Idle]
    /\ last = [op |-> "new", args |-> <<>>, val |-> <<>>, path |-> "new"]
    /\ issued = IssuedNew
    /\ nops = 0

(***************************************************************************)
(* Calls on MemStorage                                                     *)
(***************************************************************************)
Ids == 1..2
NoFields == EmptyMap      \* the empty partial {}

WorkoutInputs == {[name |-> n, date |-> d, notes |-> Null] : n \in {"", "A"}, d \in {1, 2}}
WorkoutPartials ==
    {NoFields, [name |-> ""], [name |-> "B"], [notes |-> "n"],
     [name |-> "", notes |-> "n"], [name |-> "B", notes |-> "n"]}
ExerciseInputs ==
    {[workoutId |-> w, name |-> n, sets |-> <<>>] : w \in Ids, n \in {"Squat", "Front Squat"}}
ExercisePartials == {NoFields, [name |-> "Row"]}
WorkoutWithExercisesInputs ==
    {[workout |-> [name |-> "A", date |-> 1], exercises |-> es] :
        es \in {<<>>,
                <<[name |-> "Squat", sets |-> <<>>], [name |-> "Row", sets |-> <<>>]>>}}
ExerciseTypeInputs == {[name |-> "Row"]}
ExerciseTypePartials == {NoFields, [notes |-> "n"], [name |-> "Row"], [name |-> ""]}
GoalInputs ==
    {[name |-> "G"],
     [name |-> "G", exerciseName |-> "Squat"],
     [name |-> "G", exerciseName |-> "Front Squat"],
     [name |-> "G", targetWeight |-> 0, currentProgress |-> 0, isCompleted |-> FALSE]}
GoalPartials == {NoFields, [isCompleted |-> TRUE]}
RoutineInputs == {[name |-> "R"]}
RoutinePartials == {NoFields, [category |-> "c"]}
RoutineExerciseInputs ==
    {[routineId |-> r, exerciseTypeId |-> 1, orderIndex |-> o] : r \in Ids, o \in {0, 1}}
       \cup {[routineId |-> 1, exerciseTypeId |-> 1, orderIndex |-> 0,
               defaultSets |-> 0, defaultReps |-> 0]}
RoutineExercisePartials == {NoFields, [orderIndex |-> 1]}

\* the log of returned ids after a create of type t returned ids
Issue(t, ids) == [issued EXCEPT ![t] = @ \o ids]

\* one completed call on MemStorage: r is what the method computed, iss the
\* log of the ids handed out so far
MemCall(op, args, r, iss) ==
    /\ nops < MaxOps
    /\ mem' = r.m
    /\ last' = [op |-> op, args |-> args, val |-> r.val, path |-> "mem"]
    /\ issued' = iss
    /\ nops' = nops + 1
    /\ UNCHANGED <<pg, usePostgres, proc>>

CreateWorkout ==
    \E w \in WorkoutInputs :
        LET r == Mem_createWorkout(mem, w)
        IN  MemCall("createWorkout", w, r, Issue("Workout", <<r.val.id>>))

UpdateWorkout ==
    \E id \in Ids, w \in WorkoutPartials :
        MemCall("updateWorkout", [id |-> id, partial |-> w],
                Mem_updateWorkout(mem, id, w), issued)

DeleteWorkout ==
    \E id \in Ids :
        MemCall("deleteWorkout", [id |-> id], Mem_deleteWorkout(mem, id), issued)

CreateExercise ==
    \E e \in ExerciseInputs :
        LET r == Mem_createExercise(mem, e)
        IN  MemCall("createExercise", e, r, Issue("Exercise", <<r.val.id>>))

UpdateExercise ==
    \E id \in Ids, e \in ExercisePartials :
        MemCall("updateExercise", [id |-> id, partial |-> e],
                Mem_updateExercise(mem, id, e), issued)

DeleteExercise ==
    \E id \in Ids :
        MemCall("deleteExercise", [id |-> id], Mem_deleteExercise(mem, id), issued)

CreateWorkoutWithExercises ==
    \E d \in WorkoutWithExercisesInputs :
        LET r == Mem_createWorkoutWithExercises(mem, d)
        IN  MemCall("createWorkoutWithExercises", d, r,
                    [issued EXCEPT
                        !.Workout = @ \o <<r.val.workout.id>>,
                        !.Exercise = @ \o [i \in 1..Len(r.val.exercises) |->
                                              r.val.exercises[i].id]])

CreateExerciseType ==
    \E t \in ExerciseTypeInputs :
        LET r == Mem_createExerciseType(mem, t)
        IN  MemCall("createExerciseType", t, r, Issue("ExerciseType", <<r.val.id>>))

UpdateExerciseType ==
    \E id \in Ids, t \in ExerciseTypePartials :
        MemCall("updateExerciseType", [id |-> id, partial |-> t],
                Mem_updateExerciseType(mem, id, t), issued)

DeleteExerciseType ==
    \E id \in Ids :
        MemCall("deleteExerciseType", [id |-> id], Mem_deleteExerciseType(mem, id), issued)

CreateGoal ==
    \E g \in GoalInputs :
        LET r == Mem_createGoal(mem, g)
        IN  MemCall("createGoal", g, r, Issue("Goal", <<r.val.id>>))

UpdateGoal ==
    \E id \in Ids, g \in GoalPartials :
        MemCall("updateGoal", [id |-> id, partial |-> g],
                Mem_updateGoal(mem, id, g), issued)

DeleteGoal ==
    \E id \in Ids :
        MemCall("deleteGoal", [id |-> id], Mem_deleteGoal(mem, id), issued)

CreateWorkoutRoutine ==
    \E r0 \in RoutineInputs :
        LET r == Mem_createWorkoutRoutine(mem, r0)
        IN  MemCall("createWorkoutRoutine", r0, r, Issue("WorkoutRoutine", <<r.val.id>>))

UpdateWorkoutRoutine ==
    \E id \in Ids, r0 \in RoutinePartials :
        MemCall("updateWorkoutRoutine", [id |-> id, partial |-> r0],
                Mem_updateWorkoutRoutine(mem, id, r0), issued)

DeleteWorkoutRoutine ==
    \E id \in Ids :
        MemCall("deleteWorkoutRoutine", [id |-> id],
                Mem_deleteWorkoutRoutine(mem, id), issued)

CreateRoutineExercise ==
    \E re \in RoutineExerciseInputs :
        LET r == Mem_createRoutineExercise(mem, re)
        IN  MemCall("createRoutineExercise", re, r,
                    Issue("RoutineExercise", <<r.val.id>>))

UpdateRoutineExercise ==
    \E id \in Ids, re \in RoutineExercisePartials :
        MemCall("updateRoutineExercise", [id |-> id, partial |-> re],
                Mem_updateRoutineExercise(mem, id, re), issued)

DeleteRoutineExercise ==
    \E id \in Ids :
        MemCall("deleteRoutineExercise", [id |-> id],
                Mem_deleteRoutineExercise(mem, id), issued)

NextMem ==
    \/ CreateWorkout \/ UpdateWorkout \/ DeleteWorkout
    \/ CreateExercise \/ UpdateExercise \/ DeleteExercise
    \/ CreateWorkoutWithExercises
    \/ CreateExerciseType \/ UpdateExerciseType \/ DeleteExerciseType
    \/ CreateGoal \/ UpdateGoal \/ DeleteGoal
    \/ CreateWorkoutRoutine \/ UpdateWorkoutRoutine \/ DeleteWorkoutRoutine
    \/ CreateRoutineExercise \/ UpdateRoutineExercise \/ DeleteRoutineExercise

SpecMem == Init /\ [][NextMem]_vars

(***************************************************************************)
(* PostgresStorage: one operator per statement sent through db             *)
(***************************************************************************)
DbRet(db, v) == [db |-> db, val |-> v]

\* db.select().from(workouts).where(eq(workouts.id, id)).limit(1), result[0]
Pg_getWorkout(db, id) ==
    IF id \in DOMAIN db.workouts THEN db.workouts[id] ELSE Undefined

\* db.insert(workouts).values(workout).returning(): the serial assigns the id,
\* absent nullable columns are NULL
Pg_createWorkout(db, workout) ==
    LET id == db.workoutsSeq
        row == Spread([duration |-> NullNum, notes |-> Null, date |-> Now],
                      Spread(workout, [id |-> id]))
    IN  DbRet([db EXCEPT !.workoutsSeq = id + 1,
                         !.workouts = MapSet(@, id, row)], row)

\* db.update(workouts).set(workout).where(eq(workouts.id, id)).returning()
Pg_setWorkout(db, id, workout) ==
    IF id \notin DOMAIN db.workouts THEN DbRet(db, Undefined)
    ELSE LET row == Spread(db.workouts[id], workout)
         IN  DbRet([db EXCEPT !.workouts = MapSet(@, id, row)], row)

\* db.delete(exercises).where(eq(exercises.workoutId, id))
Pg_deleteExercisesOf(db, id) ==
    DbRet([db EXCEPT !.exercises =
                        [e \in {x \in DOMAIN @ : @[x].workoutId # id} |-> @[e]]], TRUE)

\* db.delete(workouts).where(eq(workouts.id, id)).returning(), result.length > 0;
\* the foreign key of exercises deletes the rows of the workout with it
Pg_deleteWorkoutRow(db, id) ==
    DbRet([db EXCEPT !.workouts = MapDelete(@, id),
                     !.exercises =
                        [e \in {x \in DOMAIN @ : @[x].workoutId # id} |-> @[e]]],
          id \in DOMAIN db.workouts)

\* db.select().from(exercises).where(eq(exercises.workoutId, workoutId))
Pg_getExercises(db, workoutId) ==
    LET OfWorkout(e) == e.workoutId = workoutId
    IN  SelectSeq(Values(db.exercises), OfWorkout)

\* db.insert(exercises).values(exercise).returning()
Pg_createExercise(db, exercise) ==
    LET id == db.exercisesSeq
        row == Spread(exercise, [id |-> id])
    IN  DbRet([db EXCEPT !.exercisesSeq = id + 1,
                         !.exercises = MapSet(@, id, row)], row)

(***************************************************************************)
(* StorageAdapter: calls in flight                                         *)
(***************************************************************************)
AdapterOps ==
    {"getWorkout", "createWorkout", "updateWorkout", "deleteWorkout",
     "getExercises", "createWorkoutWithExercises"}

ArgsOf(op) ==
    CASE op = "getWorkout" -> {[id |-> 1]}
      [] op = "createWorkout" -> {[workout |-> [name |-> "A", date |-> 1]]}
      [] op = "updateWorkout" ->
            {[id |-> 1, partial |-> w] : w \in {[notes |-> "n"], [name |-> ""], [name |-> "B"]}}
      [] op = "deleteWorkout" -> {[id |-> 1]}
      [] op = "getExercises" -> {[id |-> 1]}
      [] op = "createWorkoutWithExercises" ->
            {[data |-> [workout |-> [name |-> "A", date |-> 1],
                        exercises |-> <<[name |-> "Squat", sets |-> <<>>],
                                        [name |-> "Row", sets |-> <<>>]>>]]}

\* the memMethod closures handed to delegate
MemMethod(m, op, args) ==
    CASE op = "getWorkout" -> Ret(m, Mem_getWorkout(m, args.id))
      [] op = "createWorkout" -> Mem_createWorkout(m, args.workout)
      [] op = "updateWorkout" -> Mem_updateWorkout(m, args.id, args.partial)
      [] op = "deleteWorkout" -> Mem_deleteWorkout(m, args.id)
      [] op = "getExercises" -> Ret(m, Mem_getExercises(m, args.id))
      [] op = "createWorkoutWithExercises" -> Mem_createWorkoutWithExercises(m, args.data)

\* the first statement a postgresMethod closure sends
FirstStatement(op, args) ==
    CASE op = "getWorkout" -> "selectWorkout"
      [] op = "createWorkout" -> "insertWorkout"
      [] op = "updateWorkout" ->
            IF Has(args.partial, "name") THEN "updateWorkout" ELSE "selectWorkoutName"
      [] op = "deleteWorkout" -> "deleteExercises"
      [] op = "getExercises" -> "selectExercises"
      [] op = "createWorkoutWithExercises" -> "insertWorkout"

NoLocals == [workout |-> Undefined, exercises |-> <<>>]

\* a call in flight against the durable store: the statement it awaits (pc),
\* the arguments as the caller passed them (args0), the argument objects as
\* they are now (args) and the locals of the method
InFlight(op, args) ==
    [pc |-> FirstStatement(op, args), op |-> op, args0 |-> args, args |-> args,
     loc |-> NoLocals]

Done(v) == [pc |-> "done", val |-> v]


\* the statement the call pr awaits, executed on db: the database afterwards
\* and how the method goes on (next statement, or its return value)
PgStatement(db, pr) ==
    CASE pr.pc = "selectWorkout" ->
            [db |-> db, next |-> Done(Pg_getWorkout(db, pr.args.id))]
      [] pr.pc = "insertWorkout" /\ pr.op = "createWorkout" ->
            LET r == Pg_createWorkout(db, pr.args.workout)
            IN  [db |-> r.db, next |-> Done(r.val)]
      [] pr.pc = "insertWorkout" /\ pr.op = "createWorkoutWithExercises" ->
            LET data == pr.args.data
                r == Pg_createWorkout(db,
                        [name |-> data.workout.name, date |-> data.workout.date,
                         duration |-> NumOr(data.workout, "duration", NullNum),
                         notes |-> StrOr(data.workout, "notes", Null)])
            IN  [db |-> r.db,
                 next |-> IF data.exercises = <<>>
                          THEN Done([workout |-> r.val, exercises |-> <<>>])
                          ELSE [pr EXCEPT !.pc = "insertExercise", !.loc.workout = r.val]]
      [] pr.pc = "selectWorkoutName" ->
            LET existingWorkout == Pg_getWorkout(db, pr.args.id)
            IN  [db |-> db,
                 next |-> [pr EXCEPT !.pc = "updateWorkout",
                                     !.args.partial =
                                        IF existingWorkout # Undefined
                                        THEN Spread(@, [name |-> existingWorkout.name])
                                        ELSE @]]
      [] pr.pc = "updateWorkout" ->
            LET r == Pg_setWorkout(db, pr.args.id, pr.args.partial)
            IN  [db |-> r.db, next |-> Done(r.val)]
      [] pr.pc = "deleteExercises" ->
            [db |-> Pg_deleteExercisesOf(db, pr.args.id).db,
             next |-> [pr EXCEPT !.pc = "deleteWorkout"]]
      [] pr.pc = "deleteWorkout" ->
            LET r == Pg_deleteWorkoutRow(db, pr.args.id)
            IN  [db |-> r.db, next |-> Done(r.val)]
      [] pr.pc = "selectExercises" ->
            [db |-> db, next |-> Done(Pg_getExercises(db, pr.args.id))]
      [] pr.pc = "insertExercise" ->
            LET data == pr.args.data
                exerciseData == data.exercises[Len(pr.loc.exercises) + 1]
                r == Pg_createExercise(db, [workoutId |-> pr.loc.workout.id,
                                            name |-> exerciseData.name,
                                            sets |-> exerciseData.sets])
                exercises == Append(pr.loc.exercises, r.val)
            IN  [db |-> r.db,
                 next |-> IF Len(exercises) = Len(data.exercises)
                          THEN Done([workout |-> pr.loc.workout, exercises |-> exercises])
                          ELSE [pr EXCEPT !.loc.exercises = exercises]]

\* the foreign key exercises.workout_id -> workouts(id) rejects an insert
\* for a workout that is gone
StatementAccepted(db, pr) ==
    pr.pc = "insertExercise" => pr.loc.workout.id \in DOMAIN db.workouts

\* mutant: the call goes to the durable store without a look at usePostgres
StartDurable_unchecked(p) ==
    /\ proc[p].pc = "idle"
    /\ nops < MaxAdapterOps
    /\ \E op \in AdapterOps : \E args \in ArgsOf(op) :
          proc' = [proc EXCEPT ![p] = InFlight(op, args)]
    /\ nops' = nops + 1
    /\ UNCHANGED <<mem, pg, usePostgres, last, issued>>

\* delegate with usePostgres true: postgresMethod() is called and sends its
\* first statement
StartDurable(p) ==
    /\ usePostgres
    /\ proc[p].pc = "idle"
    /\ nops < MaxAdapterOps
    /\ \E op \in AdapterOps : \E args \in ArgsOf(op) :
          proc' = [proc EXCEPT ![p] = InFlight(op, args)]
    /\ nops' = nops + 1
    /\ UNCHANGED <<mem, pg, usePostgres, last, issued>>

\* mutant: a call served by the in-memory store re-arms the durable store
StartFallback_rearms(p) ==
    /\ ~usePostgres
    /\ proc[p].pc = "idle"
    /\ nops < MaxAdapterOps
    /\ \E op \in AdapterOps : \E args \in ArgsOf(op) :
          LET r == MemMethod(mem, op, args)
          IN  /\ mem' = r.m
              /\ last' = [op |-> op, args |-> args, val |-> r.val, path |-> "mem"]
    /\ usePostgres' = TRUE
    /\ nops' = nops + 1
    /\ UNCHANGED <<pg, proc, issued>>

\* delegate with usePostgres false: memMethod() serves the call
StartFallback(p) ==
    /\ ~usePostgres
    /\ proc[p].pc = "idle"
    /\ nops < MaxAdapterOps
    /\ \E op \in AdapterOps : \E args \in ArgsOf(op) :
          LET r == MemMethod(mem, op, args)
          IN  /\ mem' = r.m
              /\ last' = [op |-> op, args |-> args, val |-> r.val, path |-> "mem"]
    /\ nops' = nops + 1
    /\ UNCHANGED <<pg, usePostgres, proc, issued>>

\* the awaited statement succeeds: the method sends its next statement, or
\* returns and delegate returns its value
PgSucceed(p) ==
    /\ proc[p].pc # "idle"
    /\ StatementAccepted(pg, proc[p])
    /\ LET r == PgStatement(pg, proc[p])
       IN  /\ pg' = r.db
           /\ IF r.next.pc = "done"
              THEN /\ proc' = [proc EXCEPT ![p] = Idle]
                   /\ last' = [op |-> proc[p].op, args |-> proc[p].args0,
                               val |-> r.next.val, path |-> "pg"]
              ELSE /\ proc' = [proc EXCEPT ![p] = r.next]
                   /\ UNCHANGED last
    /\ UNCHANGED <<mem, usePostgres, issued, nops>>

\* the awaited statement throws: the catch of delegate clears usePostgres and
\* calls memMethod(), whose closure holds the argument objects as they are now
PgFail(p) ==
    /\ proc[p].pc # "idle"
    /\ usePostgres' = FALSE
    /\ LET r == MemMethod(mem, proc[p].op, proc[p].args)
       IN  /\ mem' = r.m
           /\ last' = [op |-> proc[p].op, args |-> proc[p].args0,
                       val |-> r.val, path |-> "retry"]
    /\ proc' = [proc EXCEPT ![p] = Idle]
    /\ UNCHANGED <<pg, issued, nops>>

Next ==
    \E p \in Procs :
        \/ StartDurable(p)
        \/ StartFallback(p)
        \/ PgSucceed(p)
        \/ PgFail(p)

Spec == Init /\ [][Next]_vars

(***************************************************************************)
(* getExerciseHistory through the StorageAdapter                           *)
(***************************************************************************)
\* the demo data PostgresStorage returns when no exercise has the name:
\* six points, 15 days apart, oldest first
RECURSIVE SampleData(_, _)
SampleData(exerciseName, i) ==
    IF i < 0 THEN <<>>
    ELSE <<[date |-> Now - i * 15,
            weight |-> IF exerciseName = "Bench Press" THEN 45 + i * 5 ELSE 45 + i * 5 - 10,
            reps |-> 8]>> \o SampleData(exerciseName, i - 1)

\* PostgresStorage.getExerciseHistory on one state of the database.  The ids
\* of the workouts are joined with ", " into ONE bound parameter of
\* "workouts.id IN (...)": with two or more ids the text is no integer and
\* the statement throws.
Pg_getExerciseHistory(db, exerciseName) ==
    LET Named(e) == e.name = exerciseName
        allExercises == SelectSeq(Values(db.exercises), Named)
        workoutIds == {allExercises[i].workoutId : i \in 1..Len(allExercises)}
        workoutsMap == [w \in workoutIds \cap DOMAIN db.workouts |-> db.workouts[w]]
        points == HistoryPoints(allExercises, workoutsMap)
    IN  IF workoutIds = {} THEN [threw |-> FALSE, val |-> SampleData(exerciseName, 5)]
        ELSE IF Cardinality(workoutIds) > 1 THEN [threw |-> TRUE, val |-> <<>>]
        ELSE [threw |-> FALSE, val |-> SortAscBy(points, Dates(points))]

\* set lists: weights from 1..MaxWeight, the reps tell the positions apart
RepsAt(i) == 10 + i
SetLists(maxLen) ==
    UNION {{[i \in 1..n |-> [weight |-> ws[i], reps |-> RepsAt(i)]] :
                ws \in [1..n -> 1..MaxWeight]} : n \in 0..maxLen}

\* stores holding two workouts and two exercises
HistoryWorkouts(d1, d2) ==
    MapSet(MapSet(EmptyMap, 1, [id |-> 1, name |-> "A", date |-> d1,
                                duration |-> NullNum, notes |-> Null]),
           2, [id |-> 2, name |-> "B", date |-> d2, duration |-> NullNum, notes |-> Null])

HistoryExercises(w1, s1, n2, w2, s2) ==
    MapSet(MapSet(EmptyMap, 1, [id |-> 1, workoutId |-> w1, name |-> "Squat", sets |-> s1]),
           2, [id |-> 2, workoutId |-> w2, name |-> n2, sets |-> s2])

\* the rows the foreign key of exercises admits
Referenced(exs, ws) == [e \in {x \in DOMAIN exs : exs[x].workoutId \in DOMAIN ws} |-> exs[e]]

InitHistory ==
    \E d1 \in {1, 2}, d2 \in {1, 2}, w1 \in {1, 2, 3}, w2 \in {1, 2},
       n2 \in {"Squat", "Row"}, s1 \in SetLists(MaxSets), s2 \in SetLists(1) :
        LET ws == HistoryWorkouts(d1, d2)
            es == HistoryExercises(w1, s1, n2, w2, s2)
        IN  /\ mem = [MemStorageNew EXCEPT !.workouts = ws, !.exercises = es,
                                           !.workoutIdCounter = 3,
                                           !.exerciseIdCounter = 3]
            /\ pg = [workouts |-> ws, exercises |-> Referenced(es, ws),
                     workoutsSeq |-> 3, exercisesSeq |-> 3]
            /\ usePostgres = TRUE
            /\ proc = [p \in Procs |-> Idle]
            /\ last = [op |-> "new", args |-> <<>>, val |-> <<>>, path |-> "new"]
            /\ issued = IssuedNew
            /\ nops = 0

ExerciseNames == {"Squat", "Row", "Bench Press"}

HistoryCall(name, val, path) ==
    /\ last' = [op |-> "getExerciseHistory", args |-> [name |-> name],
                val |-> val, path |-> path]
    /\ UNCHANGED <<mem, pg, proc, issued, nops>>

\* durable-mode: PostgresStorage answers, or its statement throws and the
\* in-memory store answers
HistoryDurable ==
    \E name \in ExerciseNames :
        LET r == Pg_getExerciseHistory(pg, name)
        IN  /\ usePostgres
            /\ IF r.threw
               THEN /\ usePostgres' = FALSE
                    /\ HistoryCall(name, Mem_getExerciseHistory(mem, name), "retry")
               ELSE /\ usePostgres' = usePostgres
                    /\ HistoryCall(name, r.val, "pg")

\* durable-mode: the durable store is unreachable
HistoryDurableFails ==
    \E name \in ExerciseNames :
        /\ usePostgres
        /\ usePostgres' = FALSE
        /\ HistoryCall(name, Mem_getExerciseHistory(mem, name), "retry")

\* fallback-mode
HistoryFallback ==
    \E name \in ExerciseNames :
        /\ ~usePostgres
        /\ usePostgres' = usePostgres
        /\ HistoryCall(name, Mem_getExerciseHistory(mem, name), "mem")

NextHistory == HistoryDurable \/ HistoryDurableFails \/ HistoryFallback

SpecHistory == InitHistory /\ [][NextHistory]_vars

(***************************************************************************)
(* getExerciseSets and getLatestExerciseSet through the StorageAdapter     *)
(***************************************************************************)
Pg_getExerciseSets(db, exerciseName, limit) ==
    LET history == Pg_getExerciseHistory(db, exerciseName)
    IN  IF history.threw THEN history
        ELSE [threw |-> FALSE, val |-> Slice(history.val, 0 - limit)]

\* select ... where name = exerciseName order by id desc limit 1
Pg_getLatestExerciseSet(db, exerciseName) ==
    LET Named(e) == e.name = exerciseName
        byIdAsc == SelectSeq(Values(db.exercises), Named)
        latestExercise == byIdAsc[Len(byIdAsc)]
        heaviestSet == HeaviestSet(latestExercise.sets)
    IN  IF byIdAsc = <<>> THEN [threw |-> FALSE, val |-> NullObj]
        ELSE IF latestExercise.sets = <<>> THEN [threw |-> FALSE, val |-> NullObj]
        ELSE [threw |-> FALSE,
              val |-> [weight |-> heaviestSet.weight, reps |-> heaviestSet.reps]]

\* the route passes parseInt of the query's limit, so "0" arrives as 0
Limits == 0..MaxLimit

ProgressOps == {"getExerciseSets", "getLatestExerciseSet"}

ProgressArgs(op) ==
    IF op = "getExerciseSets"
    THEN {[name |-> n, limit |-> l] : n \in ExerciseNames, l \in Limits}
    ELSE {[name |-> n] : n \in ExerciseNames}

MemProgress(m, op, args) ==
    IF op = "getExerciseSets"
    THEN Mem_getExerciseSets(m, args.name, args.limit)
    ELSE Mem_getLatestExerciseSet(m, args.name)

PgProgress(db, op, args) ==
    IF op = "getExerciseSets"
    THEN Pg_getExerciseSets(db, args.name, args.limit)
    ELSE Pg_getLatestExerciseSet(db, args.name)

ProgressCall(op, args, val, path) ==
    /\ last' = [op |-> op, args |-> args, val |-> val, path |-> path]
    /\ UNCHANGED <<mem, pg, proc, issued, nops>>

\* durable-mode: PostgresStorage answers, or its statement throws and the
\* in-memory store answers
ProgressDurable ==
    \E op \in ProgressOps : \E args \in ProgressArgs(op) :
        LET r == PgProgress(pg, op, args)
        IN  /\ usePostgres
            /\ IF r.threw
               THEN /\ usePostgres' = FALSE
                    /\ ProgressCall(op, args, MemProgress(mem, op, args), "retry")
               ELSE /\ usePostgres' = usePostgres
                    /\ ProgressCall(op, args, r.val, "pg")

\* durable-mode: the durable store is unreachable
ProgressDurableFails ==
    \E op \in ProgressOps : \E args \in ProgressArgs(op) :
        /\ usePostgres
        /\ usePostgres' = FALSE
        /\ ProgressCall(op, args, MemProgress(mem, op, args), "retry")

\* fallback-mode
ProgressFallback ==
    \E op \in ProgressOps : \E args \in ProgressArgs(op) :
        /\ ~usePostgres
        /\ usePostgres' = usePostgres
        /\ ProgressCall(op, args, MemProgress(mem, op, args), "mem")

NextProgress == ProgressDurable \/ ProgressDurableFails \/ ProgressFallback

SpecProgress == InitHistory /\ [][NextProgress]_vars

(***************************************************************************)
(* updateExerciseType through the StorageAdapter                           *)
(***************************************************************************)
MaxRenames == 2      \* updateExerciseType calls made in one behaviour

\* db.select().from(exerciseTypes).where(eq(exerciseTypes.id, id)).limit(1)
Pg_getExerciseType(db, id) ==
    IF id \in DOMAIN db.exerciseTypes THEN db.exerciseTypes[id] ELSE Undefined

\* db.update(exercises).set({ name }).where(eq(exercises.name, original))
Pg_renameExercises(db, original, name) ==
    [db EXCEPT !.exercises =
        [e \in DOMAIN @ |-> IF @[e].name = original THEN [@[e] EXCEPT !.name = name]
                            ELSE @[e]]]

\* db.update(goals).set({ exerciseName }).where(eq(goals.exerciseName, original))
Pg_renameGoals(db, original, name) ==
    [db EXCEPT !.goals =
        [g \in DOMAIN @ |-> IF @[g].exerciseName = original
                            THEN [@[g] EXCEPT !.exerciseName = name]
                            ELSE @[g]]]

\* db.update(exerciseTypes).set(exerciseType).where(eq(exerciseTypes.id, id))
\* .returning(), result[0]
Pg_setExerciseType(db, id, exerciseType) ==
    IF id \notin DOMAIN db.exerciseTypes THEN DbRet(db, Undefined)
    ELSE LET row == Spread(db.exerciseTypes[id], exerciseType)
         IN  DbRet([db EXCEPT !.exerciseTypes = MapSet(@, id, row)], row)

\* the durable database has the sample exercise types and goal, two
\* exercises and a goal on an exercise
InitRename ==
    \E n2 \in {"Squat", "Front Squat"}, g \in {"Squat", "Front Squat"} :
        /\ mem = MemStorageNew
        /\ pg = [exerciseTypes |-> MemStorageNew.exerciseTypes,
                 exercises |->
                    MapSet(MapSet(EmptyMap, 1, [id |-> 1, workoutId |-> 1,
                                                name |-> "Squat", sets |-> <<>>]),
                           2, [id |-> 2, workoutId |-> 1, name |-> n2,
                               sets |-> <<>>]),
                 goals |-> MapSet(MemStorageNew.goals, 2,
                                  [MemStorageNew.goals[1] EXCEPT
                                      !.id = 2, !.name = "G", !.exerciseName = g])]
        /\ usePostgres = TRUE
        /\ proc = [p \in Procs |-> Idle]
        /\ last = [op |-> "new", args |-> <<>>, val |-> <<>>, path |-> "new"]
        /\ issued = IssuedNew
        /\ nops = 0

PropagationStatements == {"updateExercises", "updateGoals"}

\* the statement the call pr awaits, executed on db
RenameStatement(db, pr) ==
    CASE pr.pc = "selectExerciseType" ->
            LET originalExerciseType == Pg_getExerciseType(db, pr.args.id)
            IN  [db |-> db,
                 next |-> IF originalExerciseType = Undefined THEN Done(Undefined)
                          ELSE IF /\ StrOr(pr.args.partial, "name", "") # ""
                                  /\ pr.args.partial.name # originalExerciseType.name
                          THEN [pr EXCEPT !.pc = "updateExercises",
                                          !.loc.original = originalExerciseType]
                          ELSE [pr EXCEPT !.pc = "updateExerciseTypeRow",
                                          !.loc.original = originalExerciseType]]
      [] pr.pc = "updateExercises" ->
            [db |-> Pg_renameExercises(db, pr.loc.original.name, pr.args.partial.name),
             next |-> [pr EXCEPT !.pc = "updateGoals"]]
      [] pr.pc = "updateGoals" ->
            [db |-> Pg_renameGoals(db, pr.loc.original.name, pr.args.partial.name),
             next |-> [pr EXCEPT !.pc = "updateExerciseTypeRow"]]
      [] pr.pc = "updateExerciseTypeRow" ->
            LET r == Pg_setExerciseType(db, pr.args.id, pr.args.partial)
            IN  [db |-> r.db, next |-> Done(r.val)]

\* a call starts in durable-mode: the statement it awaits, its arguments, the
\* row it read and whether its catch has run
RenameStartDurable(p) ==
    /\ usePostgres
    /\ proc[p].pc = "idle"
    /\ nops < MaxRenames
    /\ \E id \in {2, 4},
          partial \in {[name |-> "Barbell Squat"], [name |-> "Deadlift"],
                       [notes |-> "n"]} :
          proc' = [proc EXCEPT ![p] =
                     [pc |-> "selectExerciseType", op |-> "updateExerciseType",
                      args0 |-> [id |-> id, partial |-> partial],
                      args |-> [id |-> id, partial |-> partial],
                      loc |-> [original |-> Undefined, swallowed |-> FALSE]]]
    /\ nops' = nops + 1
    /\ UNCHANGED <<mem, pg, usePostgres, last, issued>>

RenameStartFallback(p) ==
    /\ ~usePostgres
    /\ proc[p].pc = "idle"
    /\ nops < MaxRenames
    /\ \E id \in {2, 4},
          partial \in {[name |-> "Barbell Squat"], [name |-> "Deadlift"],
                       [notes |-> "n"]} :
          LET r == Mem_updateExerciseType(mem, id, partial)
          IN  /\ mem' = r.m
              /\ last' = [op |-> "updateExerciseType",
                          args |-> [id |-> id, partial |-> partial],
                          val |-> r.val, path |-> "mem"]
    /\ nops' = nops + 1
    /\ UNCHANGED <<pg, usePostgres, proc, issued>>

\* the awaited statement succeeds; the UNIQUE constraint of
\* exercise_types.name rejects a second row of a name
RenameStatementSucceeds(p) ==
    /\ proc[p].pc # "idle"
    /\ (proc[p].pc = "updateExerciseTypeRow" /\ Has(proc[p].args.partial, "name"))
          => \A t \in (DOMAIN pg.exerciseTypes) \ {proc[p].args.id} :
                pg.exerciseTypes[t].name # proc[p].args.partial.name
    /\ LET r == RenameStatement(pg, proc[p])
       IN  /\ pg' = r.db
           /\ IF r.next.pc = "done"
              THEN /\ proc' = [proc EXCEPT ![p] = Idle]
                   /\ last' = [op |-> proc[p].op, args |-> proc[p].args0,
                               val |-> r.next.val, path |-> "pg"]
              ELSE /\ proc' = [proc EXCEPT ![p] = r.next]
                   /\ UNCHANGED last
    /\ UNCHANGED <<mem, usePostgres, issued, nops>>

\* mutant: the failure of a propagation statement is rethrown, and delegate
\* falls back
RenamePropagationFails_rethrown(p) ==
    /\ proc[p].pc \in PropagationStatements
    /\ usePostgres' = FALSE
    /\ LET r == Mem_updateExerciseType(mem, proc[p].args.id, proc[p].args.partial)
       IN  /\ mem' = r.m
           /\ last' = [op |-> proc[p].op, args |-> proc[p].args0,
                       val |-> r.val, path |-> "retry"]
    /\ proc' = [proc EXCEPT ![p] = Idle]
    /\ UNCHANGED <<pg, issued, nops>>

\* one of the two propagation statements throws inside the try block: the
\* catch logs, the rest of the block is skipped and the method goes on with
\* the update of the exercise type
RenamePropagationFails(p) ==
    /\ proc[p].pc \in PropagationStatements
    /\ proc' = [proc EXCEPT ![p].pc = "updateExerciseTypeRow",
                            ![p].loc.swallowed = TRUE]
    /\ UNCHANGED <<mem, pg, usePostgres, last, issued, nops>>

\* a statement outside the try block throws: the catch of delegate clears
\* usePostgres and calls the in-memory method
RenameStatementFails(p) ==
    /\ proc[p].pc \in {"selectExerciseType", "updateExerciseTypeRow"}
    /\ usePostgres' = FALSE
    /\ LET r == Mem_updateExerciseType(mem, proc[p].args.id, proc[p].args.partial)
       IN  /\ mem' = r.m
           /\ last' = [op |-> proc[p].op, args |-> proc[p].args0,
                       val |-> r.val, path |-> "retry"]
    /\ proc' = [proc EXCEPT ![p] = Idle]
    /\ UNCHANGED <<pg, issued, nops>>

NextRename ==
    \E p \in Procs :
        \/ RenameStartDurable(p)
        \/ RenameStartFallback(p)
        \/ RenameStatementSucceeds(p)
        \/ RenamePropagationFails(p)
        \/ RenameStatementFails(p)

SpecRename == InitRename /\ [][NextRename]_vars

(***************************************************************************)
(* The operations of IStorage and the methods of the StorageAdapter        *)
(***************************************************************************)
MaxCalls == 2        \* calls made on the adapter in one behaviour

\* the operations the interface IStorage declares
IStorageOps ==
    {"getWorkouts", "getWorkout", "createWorkout", "updateWorkout", "deleteWorkout",
     "getExercises", "getExercise", "createExercise", "updateExercise",
     "deleteExercise",
     "getExerciseTypes", "getExerciseType", "getExerciseTypeByName",
     "createExerciseType", "updateExerciseType", "deleteExerciseType",
     "getGoals", "getGoal", "createGoal", "updateGoal", "deleteGoal",
     "createWorkoutWithExercises", "getWorkoutWithExercises", "getRecentWorkouts",
     "getExerciseHistory", "getExerciseSets", "getLatestExerciseSet",
     "getWorkoutRoutines", "getWorkoutRoutine", "createWorkoutRoutine",
     "updateWorkoutRoutine", "deleteWorkoutRoutine",
     "getRoutineExercises", "getRoutineExercise", "createRoutineExercise",
     "updateRoutineExercise", "deleteRoutineExercise",
     "createRoutineWithExercises", "getRoutineWithExercises",
     "convertRoutineToWorkout"}

\* the methods the class StorageAdapter has
StorageAdapterOps ==
    {"getWorkouts", "getWorkout", "createWorkout", "updateWorkout", "deleteWorkout",
     "getExercises", "getExercise", "createExercise", "updateExercise",
     "deleteExercise",
     "getExerciseTypes", "getExerciseType", "getExerciseTypeByName",
     "createExerciseType", "updateExerciseType", "deleteExerciseType",
     "getGoals", "getGoal", "createGoal", "updateGoal", "deleteGoal",
     "createWorkoutWithExercises", "getWorkoutWithExercises", "getRecentWorkouts",
     "getExerciseHistory", "getExerciseSets", "getLatestExerciseSet"}

\* storage.op(...) with a method of the adapter, in durable-mode, and the
\* durable method answers; val tells the caller that a store's method ran
CallDurable(op) ==
    /\ op \in StorageAdapterOps
    /\ usePostgres
    /\ nops < MaxCalls
    /\ last' = [op |-> op, args |-> <<>>, val |-> "delegated", path |-> "pg"]
    /\ nops' = nops + 1
    /\ UNCHANGED <<mem, pg, usePostgres, proc, issued>>

\* the durable method throws: delegate clears usePostgres and calls the
\* in-memory method
CallDurableFails(op) ==
    /\ op \in StorageAdapterOps
    /\ usePostgres
    /\ nops < MaxCalls
    /\ usePostgres' = FALSE
    /\ last' = [op |-> op, args |-> <<>>, val |-> "delegated", path |-> "retry"]
    /\ nops' = nops + 1
    /\ UNCHANGED <<mem, pg, proc, issued>>

\* in fallback-mode delegate calls the in-memory method
CallFallback(op) ==
    /\ op \in StorageAdapterOps
    /\ ~usePostgres
    /\ nops < MaxCalls
    /\ last' = [op |-> op, args |-> <<>>, val |-> "delegated", path |-> "mem"]
    /\ nops' = nops + 1
    /\ UNCHANGED <<mem, pg, usePostgres, proc, issued>>

\* storage.op(...) where the adapter has no property op: the call of
\* undefined throws a TypeError inside the route's try block, no store's
\* method runs
CallMissing(op) ==
    /\ op \notin StorageAdapterOps
    /\ nops < MaxCalls
    /\ last' = [op |-> op, args |-> <<>>, val |-> "TypeError", path |-> "throws"]
    /\ nops' = nops + 1
    /\ UNCHANGED <<mem, pg, usePostgres, proc, issued>>

NextContract ==
    \E op \in IStorageOps :
        \/ CallDurable(op)
        \/ CallDurableFails(op)
        \/ CallFallback(op)
        \/ CallMissing(op)

SpecContract == Init /\ [][NextContract]_vars

(***************************************************************************)
(* PUT /workout-with-exercises/:workoutId against the durable store        *)
(***************************************************************************)
MaxRequests == 2     \* replace requests received in one behaviour
MaxExisting == 1     \* exercises the workout has before the requests

\* db.delete(exercises).where(eq(exercises.id, id)).returning(),
\* result.length > 0
Pg_deleteExercise(db, id) ==
    DbRet([db EXCEPT !.exercises = MapDelete(@, id)], id \in DOMAIN db.exercises)

\* the durable database has workout 1 and up to MaxExisting exercises of it
InitReplace ==
    \E n \in 0..MaxExisting :
        /\ mem = MemStorageNew
        /\ pg = [DurableDb EXCEPT
                    !.exercises = [e \in 1..n |-> [id |-> e, workoutId |-> 1,
                                                   name |-> "Old", sets |-> <<>>]],
                    !.exercisesSeq = n + 1]
        /\ usePostgres = TRUE
        /\ proc = [p \in Procs |-> Idle]
        /\ last = [op |-> "new", args |-> <<>>, val |-> <<>>, path |-> "new"]
        /\ issued = IssuedNew
        /\ nops = 0

\* res.status(code).json(val): the handler has returned
Responded(pr, code, val) ==
    [pc |-> "responded", workoutId |-> pr.workoutId, body |-> pr.body,
     status |-> code, val |-> val]

\* after the deletions the handler creates the exercises of the body, or
\* responds when none is left to create
AfterDeletes(pr) ==
    IF Len(pr.loc.exercises) < Len(pr.body.exercises)
    THEN [pr EXCEPT !.pc = "createExercise"]
    ELSE Responded(pr, 200, [workout |-> pr.loc.updatedWorkout,
                             exercises |-> pr.loc.exercises])

\* the statement the handler pr awaits, executed on db, and where the handler
\* goes from there
ReplaceStatement(db, pr) ==
    CASE pr.pc = "getWorkout" ->
            LET existingWorkout == Pg_getWorkout(db, pr.workoutId)
            IN  [db |-> db,
                 next |-> IF existingWorkout = Undefined
                          THEN Responded(pr, 404, "Workout not found")
                          ELSE [pr EXCEPT
                                  !.pc = "selectWorkoutName",
                                  !.loc.workoutUpdateData =
                                     Spread(pr.body.workout,
                                            [name |-> IF pr.body.workout.name # ""
                                                      THEN pr.body.workout.name
                                                      ELSE IF existingWorkout.name # ""
                                                      THEN existingWorkout.name
                                                      ELSE "Unnamed Workout"])]]
      [] pr.pc = "selectWorkoutName" ->
            LET existingWorkout == Pg_getWorkout(db, pr.workoutId)
            IN  [db |-> db,
                 next |-> [pr EXCEPT !.pc = "updateWorkout",
                                     !.loc.workoutUpdateData =
                                        IF existingWorkout # Undefined
                                        THEN Spread(@, [name |-> existingWorkout.name])
                                        ELSE @]]
      [] pr.pc = "updateWorkout" ->
            LET r == Pg_setWorkout(db, pr.workoutId, pr.loc.workoutUpdateData)
            IN  [db |-> r.db,
                 next |-> [pr EXCEPT !.pc = "getExercises",
                                     !.loc.updatedWorkout = r.val]]
      [] pr.pc = "getExercises" ->
            LET existingExercises == Pg_getExercises(db, pr.workoutId)
                got == [pr EXCEPT !.loc.existingExercises = existingExercises]
            IN  [db |-> db,
                 next |-> IF existingExercises # <<>>
                          THEN [got EXCEPT !.pc = "deleteExercise"]
                          ELSE AfterDeletes(got)]
      [] pr.pc = "deleteExercise" ->
            LET r == Pg_deleteExercise(db, Head(pr.loc.existingExercises).id)
                rest == [pr EXCEPT !.loc.existingExercises = Tail(@)]
            IN  [db |-> r.db,
                 next |-> IF rest.loc.existingExercises # <<>> THEN rest
                          ELSE AfterDeletes(rest)]
      [] pr.pc = "createExercise" ->
            LET exerciseData == pr.body.exercises[Len(pr.loc.exercises) + 1]
                r == Pg_createExercise(db, Spread(exerciseData,
                                                  [workoutId |-> pr.workoutId]))
            IN  [db |-> r.db,
                 next |-> AfterDeletes([pr EXCEPT !.loc.exercises = Append(@, r.val)])]

\* a replace request arrives with a body that passes
\* workoutWithExercisesSchema, and its handler runs to its first await
ReplaceStart(p) ==
    /\ proc[p].pc \in {"idle", "responded"}
    /\ nops < MaxRequests
    /\ \E workoutId \in Ids, name \in {"", "N"},
          exercises \in {<<>>, << [name |-> "Squat", sets |-> <<>>] >>,
                         << [name |-> "Row", sets |-> <<>>],
                            [name |-> "Deadlift", sets |-> <<>>] >>} :
          proc' = [proc EXCEPT ![p] =
                     [pc |-> "getWorkout", workoutId |-> workoutId,
                      body |-> [workout |-> [name |-> name, date |-> 2],
                                exercises |-> exercises],
                      loc |-> [workoutUpdateData |-> NoFields,
                               updatedWorkout |-> Undefined,
                               existingExercises |-> <<>>, exercises |-> <<>>]]]
    /\ nops' = nops + 1
    /\ UNCHANGED <<mem, pg, usePostgres, last, issued>>

\* the statement a handler awaits completes and the handler runs to its next
\* await or to its response
ReplaceStep(p) ==
    /\ proc[p].pc \notin {"idle", "responded"}
    /\ LET r == ReplaceStatement(pg, proc[p])
       IN  /\ pg' = r.db
           /\ proc' = [proc EXCEPT ![p] = r.next]
           /\ IF r.next.pc = "responded"
              THEN last' = [op |-> "PUT /workout-with-exercises",
                            args |-> [workoutId |-> proc[p].workoutId,
                                      body |-> proc[p].body],
                            val |-> r.next.val, path |-> "pg"]
              ELSE UNCHANGED last
    /\ UNCHANGED <<mem, usePostgres, issued, nops>>

NextReplace ==
    \E p \in Procs :
        \/ ReplaceStart(p)
        \/ ReplaceStep(p)

SpecReplace == InitReplace /\ [][NextReplace]_vars

(***************************************************************************)
(* MemStorage: a routine converted to a workout                            *)
(***************************************************************************)
MaxConvertOps == 3   \* calls made on the store of routines in one behaviour

\* the value of a call that threw
Thrown == [thrown |-> TRUE]

Mem_getRoutineWithExercises(m, routineId) ==
    LET routine == Mem_getWorkoutRoutine(m, routineId)
    IN  IF routine = Undefined THEN Undefined
        ELSE [routine |-> routine, exercises |-> Mem_getRoutineExercises(m, routineId)]

\* the loop of convertRoutineToWorkout over the routine exercises
RECURSIVE Mem_convertExercises(_, _, _)
Mem_convertExercises(m, workoutId, routineExercises) ==
    IF routineExercises = <<>> THEN Ret(m, <<>>)
    ELSE LET routineExercise == Head(routineExercises)
             exerciseType == Mem_getExerciseType(m, routineExercise.exerciseTypeId)
         IN  IF exerciseType = Undefined
             THEN Mem_convertExercises(m, workoutId, Tail(routineExercises))
             ELSE LET defaultSets == NumOr(routineExercise, "defaultSets", 3)
                      defaultReps == NumOr(routineExercise, "defaultReps", 10)
                      latestSet == Mem_getLatestExerciseSet(m, exerciseType.name)
                      defaultWeight == IF latestSet # NullObj THEN latestSet.weight
                                       ELSE 0
                      sets == [i \in 1..defaultSets |->
                                  [weight |-> defaultWeight, reps |-> defaultReps]]
                      one == Mem_createExercise(m, [workoutId |-> workoutId,
                                                    name |-> exerciseType.name,
                                                    sets |-> sets])
                      rest == Mem_convertExercises(one.m, workoutId,
                                                   Tail(routineExercises))
                  IN  Ret(rest.m, <<one.val>> \o rest.val)

Mem_convertRoutineToWorkout(m, routineId, workoutData) ==
    LET routineWithExercises == Mem_getRoutineWithExercises(m, routineId)
    IN  IF routineWithExercises = Undefined THEN Ret(m, Thrown)
        ELSE LET routine == routineWithExercises.routine
                 w == Mem_createWorkout(m,
                         [name |-> StrOr(workoutData, "name", routine.name),
                          date |-> IF Has(workoutData, "date") THEN workoutData.date
                                   ELSE Now,
                          notes |-> StrOr(workoutData, "notes", Null)])
                 es == Mem_convertExercises(w.m, w.val.id,
                                            routineWithExercises.exercises)
             IN  Ret(es.m, [workout |-> w.val, exercises |-> es.val])

\* a store with workout 1 of date d1 and its exercise "Squat" with the sets
\* s1, and routine 1 with two routine exercises, the second placed first
InitConvert ==
    \E d1 \in {1, 200}, t2 \in {2, 3},
       s1 \in {<<>>, << [weight |-> 1, reps |-> 8] >>,
               << [weight |-> 1, reps |-> 8], [weight |-> 2, reps |-> 6] >>} :
        /\ mem = [MemStorageNew EXCEPT
                     !.workouts = MapSet(EmptyMap, 1, [id |-> 1, name |-> "A",
                                                       date |-> d1, notes |-> Null]),
                     !.workoutIdCounter = 2,
                     !.exercises = MapSet(EmptyMap, 1, [id |-> 1, workoutId |-> 1,
                                                        name |-> "Squat",
                                                        sets |-> s1]),
                     !.exerciseIdCounter = 2,
                     !.workoutRoutines =
                        MapSet(EmptyMap, 1, [id |-> 1, name |-> "R",
                                             description |-> Null, category |-> Null,
                                             created |-> Now]),
                     !.routineIdCounter = 2,
                     !.routineExercises =
                        MapSet(MapSet(EmptyMap, 1,
                                      [id |-> 1, routineId |-> 1, exerciseTypeId |-> 2,
                                       orderIndex |-> 1, defaultSets |-> 3,
                                       defaultReps |-> NullNum, notes |-> Null]),
                               2, [id |-> 2, routineId |-> 1, exerciseTypeId |-> t2,
                                   orderIndex |-> 0, defaultSets |-> 2,
                                   defaultReps |-> 5, notes |-> Null]),
                     !.routineExerciseIdCounter = 3]
        /\ pg = DurableDb
        /\ usePostgres = FALSE
        /\ proc = [p \in Procs |-> Idle]
        /\ last = [op |-> "new", args |-> <<>>, val |-> <<>>, path |-> "new"]
        /\ issued = [IssuedNew EXCEPT !.Workout = <<1>>, !.Exercise = <<1>>,
                                      !.WorkoutRoutine = <<1>>,
                                      !.RoutineExercise = <<1, 2>>]
        /\ nops = 0

ConvertCall(op, args, r, iss) ==
    /\ nops < MaxConvertOps
    /\ mem' = r.m
    /\ last' = [op |-> op, args |-> args, val |-> r.val, path |-> "mem"]
    /\ issued' = iss
    /\ nops' = nops + 1
    /\ UNCHANGED <<pg, usePostgres, proc>>

CallConvertRoutineToWorkout ==
    \E routineId \in Ids,
       workoutData \in {NoFields, [name |-> ""],
                        [name |-> "W", date |-> 1, notes |-> "n"]} :
        LET r == Mem_convertRoutineToWorkout(mem, routineId, workoutData)
        IN  ConvertCall("convertRoutineToWorkout",
                        [routineId |-> routineId, data |-> workoutData], r,
                        IF r.val = Thrown THEN issued
                        ELSE [issued EXCEPT
                                !.Workout = @ \o <<r.val.workout.id>>,
                                !.Exercise = @ \o [i \in 1..Len(r.val.exercises) |->
                                                      r.val.exercises[i].id]])

CallUpdateRoutineExercise ==
    \E id \in Ids,
       routineExercise \in {[defaultSets |-> 0, defaultReps |-> 0],
                            [orderIndex |-> 2]} :
        ConvertCall("updateRoutineExercise",
                    [id |-> id, partial |-> routineExercise],
                    Mem_updateRoutineExercise(mem, id, routineExercise), issued)

CallDeleteExerciseType ==
    \E id \in {2, 3} :
        ConvertCall("deleteExerciseType", [id |-> id],
                    Mem_deleteExerciseType(mem, id), issued)

NextConvert ==
    \/ CallConvertRoutineToWorkout
    \/ CallUpdateRoutineExercise
    \/ CallDeleteExerciseType

SpecConvert == InitConvert /\ [][NextConvert]_vars

(***************************************************************************)
(* Properties of MemStorage                                                *)
(***************************************************************************)
StrictlyIncreasing(s) == \A i, j \in 1..Len(s) : i < j => s[i] < s[j]

\* C1: for each entity type, every id a create of MemStorage returns is
\* strictly greater than all ids creates of that type returned before, so no
\* id is handed out twice, also after deletions.
C1_IdsStrictlyIncrease == \A t \in DOMAIN issued : StrictlyIncreasing(issued[t])

\* a workout is created after an earlier workout was deleted
C1_Witness ==
    /\ last.op = "createWorkout"
    /\ \E i \in 1..Len(issued.Workout) : issued.Workout[i] \notin DOMAIN mem.workouts

\* C6: after deleteWorkout(id) on an existing workout, getWorkout(id) is
\* not-found and getExercises(id) is empty.
C6_DeleteWorkoutCascades ==
    [][(/\ nops' = nops + 1
        /\ last'.op = "deleteWorkout"
        /\ last'.args.id \in DOMAIN mem.workouts)
       => /\ last'.val = TRUE
          /\ Mem_getWorkout(mem', last'.args.id) = Undefined
          /\ Mem_getExercises(mem', last'.args.id) = <<>>]_vars

\* a workout that owned two exercises was deleted
C6_Witness ==
    /\ last.op = "deleteWorkout"
    /\ last.val = TRUE
    /\ Len(issued.Exercise) >= 2
    /\ mem.exercises = EmptyMap

UpdateOps ==
    {"updateWorkout", "updateExercise", "updateExerciseType", "updateGoal",
     "updateWorkoutRoutine", "updateRoutineExercise"}

MapOf(m, op) ==
    CASE op = "updateWorkout" -> m.workouts
      [] op = "updateExercise" -> m.exercises
      [] op = "updateExerciseType" -> m.exerciseTypes
      [] op = "updateGoal" -> m.goals
      [] op = "updateWorkoutRoutine" -> m.workoutRoutines
      [] op = "updateRoutineExercise" -> m.routineExercises

Stored(m, op, id) == IF id \in DOMAIN MapOf(m, op) THEN MapOf(m, op)[id] ELSE Undefined

\* the step is an update with the empty partial of a stored entity
EmptyUpdateStep ==
    /\ nops' = nops + 1
    /\ last'.op \in UpdateOps
    /\ last'.args.partial = NoFields
    /\ last'.args.id \in DOMAIN MapOf(mem, last'.op)

\* C7 as stated: update(id, {}) returns and stores the previous entity, for
\* every entity of every type, a workout with an empty name included.
C7_EmptyUpdateChangesNothing ==
    [][EmptyUpdateStep
       => /\ last'.val = Stored(mem, last'.op, last'.args.id)
          /\ Stored(mem', last'.op, last'.args.id) = Stored(mem, last'.op, last'.args.id)]_vars

\* C7 amended: update(id, {}) returns and stores the previous entity, except
\* that a workout whose stored name is empty gets the name "Unnamed Workout"
\* (its other fields are unchanged).
C7_EmptyUpdateAmended ==
    [][EmptyUpdateStep
       => LET old == Stored(mem, last'.op, last'.args.id)
              new == Stored(mem', last'.op, last'.args.id)
          IN  /\ last'.val = new
              /\ IF last'.op = "updateWorkout" /\ old.name = ""
                 THEN new = [old EXCEPT !.name = "Unnamed Workout"]
                 ELSE new = old]_vars

\* updateWorkout(id, {}) was applied to a stored workout with a name
C7_Witness ==
    /\ last.op = "updateWorkout"
    /\ last.args.partial = NoFields
    /\ last.val # Undefined
    /\ last.val.name = "A"

\* the step is an updateWorkout of a stored workout
UpdateWorkoutStep ==
    /\ nops' = nops + 1
    /\ last'.op = "updateWorkout"
    /\ last'.args.id \in DOMAIN mem.workouts

NameGiven(partial) == Has(partial, "name") /\ partial.name # ""

\* every field but the name: replaced when provided, preserved when absent
OtherFieldsMerged(old, new, partial) ==
    /\ DOMAIN new = DOMAIN old \cup DOMAIN partial
    /\ \A k \in (DOMAIN new) \ {"name"} :
          new[k] = IF Has(partial, k) THEN partial[k] ELSE old[k]

\* C8 as stated: updateWorkout never stores an empty name; with partial.name
\* absent or empty the name is the one before the update; the other fields
\* are replaced when provided and preserved when absent.
C8_UpdateWorkoutKeepsName ==
    [][UpdateWorkoutStep
       => LET old == mem.workouts[last'.args.id]
              new == mem'.workouts[last'.args.id]
              partial == last'.args.partial
          IN  /\ new.name # ""
              /\ new.name = IF NameGiven(partial) THEN partial.name ELSE old.name
              /\ OtherFieldsMerged(old, new, partial)]_vars

\* C8 amended: as stated, except that with partial.name absent or empty and
\* the stored name empty, the name becomes "Unnamed Workout".
C8_UpdateWorkoutAmended ==
    [][UpdateWorkoutStep
       => LET old == mem.workouts[last'.args.id]
              new == mem'.workouts[last'.args.id]
              partial == last'.args.partial
          IN  /\ new.name # ""
              /\ new.name = IF NameGiven(partial) THEN partial.name
                            ELSE IF old.name # "" THEN old.name
                            ELSE "Unnamed Workout"
              /\ OtherFieldsMerged(old, new, partial)]_vars

\* updateWorkout(id, {name: "", notes: "n"}) was applied to a stored workout
C8_Witness ==
    /\ last.op = "updateWorkout"
    /\ last.args.partial = [name |-> "", notes |-> "n"]
    /\ last.val # Undefined
    /\ last.val.name = "A"

(***************************************************************************)
(* Properties of the StorageAdapter                                        *)
(***************************************************************************)
\* C2: once usePostgres is false it stays false, whatever calls follow.
C2_FallbackIsPermanent == [][usePostgres = FALSE => usePostgres' = FALSE]_vars

\* in fallback-mode, a later call was served by the in-memory store
C2_Witness == usePostgres = FALSE /\ last.path = "mem"

\* the step makes call p send a statement to the durable store
SendsStatement(p) ==
    /\ proc'[p].pc # "idle"
    /\ proc'[p] # proc[p]

\* C3 as stated: after the first durable failure no statement is sent to the
\* durable store any more, not even by calls already in flight.
C3_NoDurableCallAfterFailure ==
    [][usePostgres = FALSE => \A p \in Procs : ~SendsStatement(p)]_vars

\* C3 amended: after the first durable failure every call that starts is
\* served by the in-memory store and sends nothing to the durable store;
\* calls already in flight may still send their remaining statements.
C3_NewCallsServedInMemory ==
    [][usePostgres = FALSE
       => /\ \A p \in Procs : proc[p].pc = "idle" => proc'[p].pc = "idle"
          /\ nops' = nops + 1 => (last'.path = "mem" /\ pg' = pg)]_vars

\* in fallback-mode a call was served by the in-memory store while another
\* call was still in flight against the durable store
C3_Witness ==
    /\ usePostgres = FALSE
    /\ last.path = "mem"
    /\ \E p \in Procs : proc[p].pc # "idle"

\* the step is the catch of delegate for call p
RetryStep(p) ==
    /\ proc[p].pc # "idle"
    /\ proc'[p].pc = "idle"
    /\ last'.path = "retry"

\* C4: a call that fails on the durable store is retried on the in-memory
\* store with the arguments the caller passed, and the in-memory result is
\* what the caller gets.
C4_RetryWithSameArguments ==
    [][\A p \in Procs :
          RetryStep(p) =>
             LET r == MemMethod(mem, proc[p].op, proc[p].args0)
             IN  mem' = r.m /\ last'.val = r.val]_vars

\* C5: a read that starts in fallback-mode returns no value that comes from
\* the durable store ("P" is the name of the workout the durable database
\* held from the start; no caller ever passes it).
C5_NoDurableDataAfterFallback ==
    (last.path = "mem" /\ last.op = "getWorkout" /\ last.val # Undefined)
       => last.val.name # "P"

\* the step is the return of a durable-mode updateWorkout of a stored workout
DurableUpdateStep(p) ==
    /\ proc[p].pc = "updateWorkout"
    /\ proc'[p].pc = "idle"
    /\ last'.path = "pg"
    /\ proc[p].args.id \in DOMAIN pg.workouts

\* C9: in durable-mode updateWorkout never stores an empty name; with
\* partial.name absent or empty the previous name is retained.
C9_DurableUpdateKeepsName ==
    [][\A p \in Procs :
          DurableUpdateStep(p) =>
             LET id == proc[p].args.id
             IN  /\ pg'.workouts[id].name # ""
                 /\ ~NameGiven(proc[p].args0.partial)
                       => pg'.workouts[id].name = pg.workouts[id].name]_vars

(***************************************************************************)
(* Properties of the progress history                                      *)
(***************************************************************************)
\* the store that produced the last result
ServedBy == IF last.path = "pg" THEN pg ELSE mem

\* the first set, in stored order, among those of maximal weight
FirstHeaviest(sets) ==
    LET top == Max({sets[i].weight : i \in 1..Len(sets)})
    IN  sets[Min({i \in 1..Len(sets) : sets[i].weight = top})]

\* the exercises of store st a history of name has a point for
Contributing(st, name) ==
    {e \in DOMAIN st.exercises :
        /\ st.exercises[e].name = name
        /\ st.exercises[e].workoutId \in DOMAIN st.workouts
        /\ st.exercises[e].sets # <<>>}

Count(s, x) == Cardinality({i \in 1..Len(s) : s[i] = x})

\* C10: for every matched exercise with a non-empty set list the history
\* holds the weight and reps of its first set of maximal weight, and nothing
\* else.
C10_HeaviestSetFirstOnTie ==
    (last.op = "getExerciseHistory" /\ Contributing(ServedBy, last.args.name) # {})
       => LET es == ServedBy.exercises
              from == Contributing(ServedBy, last.args.name)
              got == [i \in 1..Len(last.val) |-> <<last.val[i].weight, last.val[i].reps>>]
              Want(e) == <<FirstHeaviest(es[e].sets).weight, FirstHeaviest(es[e].sets).reps>>
          IN  /\ Len(got) = Cardinality(from)
              /\ \A e \in from :
                    Count(got, Want(e)) = Cardinality({x \in from : Want(x) = Want(e)})

\* a history was computed from an exercise whose maximal weight occurs twice
C10_Witness ==
    /\ last.op = "getExerciseHistory"
    /\ last.path = "pg"
    /\ \E e \in Contributing(ServedBy, last.args.name) :
          LET sets == ServedBy.exercises[e].sets
          IN  \E i, j \in 1..Len(sets) :
                 /\ i < j
                 /\ sets[i].weight = sets[j].weight
                 /\ sets[i].weight = FirstHeaviest(sets).weight

\* the history point of exercise e of store st
PointOf(st, e) ==
    LET top == FirstHeaviest(st.exercises[e].sets)
    IN  [date |-> st.workouts[st.exercises[e].workoutId].date,
         weight |-> top.weight, reps |-> top.reps]

NonDecreasingDates(s) == \A i, j \in 1..Len(s) : i < j => s[i].date <= s[j].date

\* C11: the history MemStorage computes for a name has exactly one entry per
\* exercise of that exact name whose workout is stored and whose set list is
\* non-empty (per exercise, not per workout); orphaned exercises and
\* exercises without sets contribute nothing; each entry carries the date of
\* the exercise's workout; the entries are in non-decreasing date order.
C11_OneEntryPerExercise ==
    (last.op = "getExerciseHistory" /\ last.path # "pg")
       => LET from == Contributing(mem, last.args.name)
          IN  /\ Len(last.val) = Cardinality(from)
              /\ \A e \in from :
                    Count(last.val, PointOf(mem, e))
                       = Cardinality({x \in from : PointOf(mem, x) = PointOf(mem, e)})
              /\ NonDecreasingDates(last.val)

\* the in-memory history has two entries of one workout, while the name was
\* asked for
C11_Witness ==
    /\ last.op = "getExerciseHistory"
    /\ last.path # "pg"
    /\ Len(last.val) = 2
    /\ mem.exercises[1].workoutId = mem.exercises[2].workoutId

\* C12: a history asked for through the StorageAdapter, in durable-mode as
\* in fallback-mode, is empty whenever the answering store holds no exercise
\* of that exact name, and each of its points stems from a stored exercise
\* of that name.
C12_NoHistoryWithoutExercise ==
    last.op = "getExerciseHistory"
       => /\ (\A e \in DOMAIN ServedBy.exercises :
                 ServedBy.exercises[e].name # last.args.name) => last.val = <<>>
          /\ \A i \in 1..Len(last.val) :
                \E e \in Contributing(ServedBy, last.args.name) :
                   last.val[i] = PointOf(ServedBy, e)

\* the exercises of store st named name whose workout is stored and has the
\* most recent date among them
MostRecent(st, name) ==
    LET named == {e \in DOMAIN st.exercises :
                     /\ st.exercises[e].name = name
                     /\ st.exercises[e].workoutId \in DOMAIN st.workouts}
        DateOf(e) == st.workouts[st.exercises[e].workoutId].date
    IN  {e \in named : \A x \in named : DateOf(x) <= DateOf(e)}

\* the heaviest set of a set list, null for the empty list
HeaviestOrNull(sets) ==
    IF sets = <<>> THEN NullObj
    ELSE [weight |-> FirstHeaviest(sets).weight, reps |-> FirstHeaviest(sets).reps]

\* C13: getLatestExerciseSet, answered by the in-memory or by the durable
\* store, returns null when no exercise of the store has the name, and
\* otherwise the heaviest set of an exercise of that name whose workout has
\* the most recent date, whatever the order the exercises were created in.
C13_LatestSetOfMostRecentWorkout ==
    last.op = "getLatestExerciseSet"
       => LET es == ServedBy.exercises
              recent == MostRecent(ServedBy, last.args.name)
          IN  /\ (\A e \in DOMAIN es : es[e].name # last.args.name) => last.val = NullObj
              /\ recent # {} => \E e \in recent : last.val = HeaviestOrNull(es[e].sets)

\* C14: in MemStorage getLatestExerciseSet(name) is the weight and reps of
\* the last entry of getExerciseHistory(name) when that history is
\* non-empty, and null exactly when it is empty.
C14_LatestIsLastOfHistory ==
    (last.op = "getLatestExerciseSet" /\ last.path # "pg")
       => LET history == Mem_getExerciseHistory(mem, last.args.name)
              newest == history[Len(history)]
          IN  IF history = <<>> THEN last.val = NullObj
              ELSE last.val = [weight |-> newest.weight, reps |-> newest.reps]

\* the history of the store that answered the last call
HistoryServed(name) ==
    IF last.path = "pg" THEN Pg_getExerciseHistory(pg, name).val
    ELSE Mem_getExerciseHistory(mem, name)

\* C15: for every limit >= 0, limit = 0 included, getExerciseSets(name,
\* limit) returns the last min(limit, n) entries of the history of name, in
\* the same order, n being the length of that history.
C15_LastLimitEntries ==
    last.op = "getExerciseSets"
       => LET history == HistoryServed(last.args.name)
              n == Len(history)
              k == Min({last.args.limit, n})
          IN  last.val = SubSeq(history, n - k + 1, n)

(***************************************************************************)
(* Properties of the records of MemStorage                                 *)
(***************************************************************************)
\* the step is updateExerciseType(id, {name: n}) on a stored type whose name
\* is not n
RenameStep ==
    /\ nops' = nops + 1
    /\ last'.op = "updateExerciseType"
    /\ last'.args.id \in DOMAIN mem.exerciseTypes
    /\ Has(last'.args.partial, "name")
    /\ last'.args.partial.name # mem.exerciseTypes[last'.args.id].name

\* C16: updateExerciseType(id, {name: n}) on a stored type whose name is not
\* n, the empty n included, sets every Exercise.name and Goal.exerciseName
\* that equalled the old name to n (so none equals the old name afterwards)
\* and changes no other exercise or goal.
C16_RenamePropagates ==
    [][RenameStep
       => LET old == mem.exerciseTypes[last'.args.id].name
              n == last'.args.partial.name
          IN  /\ DOMAIN mem'.exercises = DOMAIN mem.exercises
              /\ \A e \in DOMAIN mem.exercises :
                    mem'.exercises[e] = IF mem.exercises[e].name = old
                                        THEN [mem.exercises[e] EXCEPT !.name = n]
                                        ELSE mem.exercises[e]
              /\ DOMAIN mem'.goals = DOMAIN mem.goals
              /\ \A g \in DOMAIN mem.goals :
                    mem'.goals[g] = IF mem.goals[g].exerciseName = old
                                    THEN [mem.goals[g] EXCEPT !.exerciseName = n]
                                    ELSE mem.goals[g]]_vars

\* the elements of a sequence
Range(s) == {s[i] : i \in 1..Len(s)}

\* s lists the members of the set S, each once
ListsExactly(s, S) == Range(s) = S /\ Len(s) = Cardinality(S)

\* C17: getWorkouts() lists all stored workouts in non-increasing date
\* order; getExercises(w) lists exactly the exercises whose workoutId is w;
\* getRoutineExercises(r) lists exactly the routine exercises whose routineId
\* is r, in non-decreasing orderIndex order.
C17_ListingsFilteredAndOrdered ==
    LET ws == Mem_getWorkouts(mem)
        es == Range(Values(mem.exercises))
        res == Range(Values(mem.routineExercises))
    IN  /\ ListsExactly(ws, Range(Values(mem.workouts)))
        /\ \A i, j \in 1..Len(ws) : i < j => ws[i].date >= ws[j].date
        /\ \A w \in Ids \cup {e.workoutId : e \in es} :
              ListsExactly(Mem_getExercises(mem, w), {e \in es : e.workoutId = w})
        /\ \A r \in Ids \cup {re.routineId : re \in res} :
              LET l == Mem_getRoutineExercises(mem, r)
              IN  /\ ListsExactly(l, {re \in res : re.routineId = r})
                  /\ \A i, j \in 1..Len(l) : i < j => l[i].orderIndex <= l[j].orderIndex

\* two workouts are stored, the one created first with the earlier date, and
\* getWorkouts() lists the other one first
C17_Witness ==
    /\ DOMAIN mem.workouts = {1, 2}
    /\ mem.workouts[1].date < mem.workouts[2].date
    /\ Mem_getWorkouts(mem)[1].id = 2

\* the routine exercises of the routines other than id
OfOtherRoutines(m, id) ==
    {re \in Range(Values(m.routineExercises)) : re.routineId # id}

\* C18: after deleteWorkoutRoutine(id) on a stored routine,
\* getWorkoutRoutine(id) is not-found, getRoutineExercises(id) is empty and
\* the routine exercises of every other routine are unchanged.
C18_DeleteRoutineCascades ==
    [][(/\ nops' = nops + 1
        /\ last'.op = "deleteWorkoutRoutine"
        /\ last'.args.id \in DOMAIN mem.workoutRoutines)
       => /\ last'.val = TRUE
          /\ Mem_getWorkoutRoutine(mem', last'.args.id) = Undefined
          /\ Mem_getRoutineExercises(mem', last'.args.id) = <<>>
          /\ OfOtherRoutines(mem', last'.args.id) = OfOtherRoutines(mem, last'.args.id)
          /\ \A r \in Ids \ {last'.args.id} :
                Mem_getRoutineExercises(mem', r) = Mem_getRoutineExercises(mem, r)]_vars

\* a routine that owned a routine exercise was deleted
C18_Witness ==
    /\ last.op = "deleteWorkoutRoutine"
    /\ last.val = TRUE
    /\ Len(issued.RoutineExercise) >= 1
    /\ mem.routineExercises = EmptyMap

EntityTypes ==
    {"Workout", "Exercise", "ExerciseType", "Goal", "WorkoutRoutine", "RoutineExercise"}

CreateOps ==
    {"createWorkout", "createExercise", "createExerciseType", "createGoal",
     "createWorkoutRoutine", "createRoutineExercise"}

DeleteOps ==
    {"deleteWorkout", "deleteExercise", "deleteExerciseType", "deleteGoal",
     "deleteWorkoutRoutine", "deleteRoutineExercise"}

\* the entity type an operation is about
TypeOf(op) ==
    CASE op \in {"createWorkout", "updateWorkout", "deleteWorkout"} -> "Workout"
      [] op \in {"createExercise", "updateExercise", "deleteExercise"} -> "Exercise"
      [] op \in {"createExerciseType", "updateExerciseType", "deleteExerciseType"}
            -> "ExerciseType"
      [] op \in {"createGoal", "updateGoal", "deleteGoal"} -> "Goal"
      [] op \in {"createWorkoutRoutine", "updateWorkoutRoutine", "deleteWorkoutRoutine"}
            -> "WorkoutRoutine"
      [] op \in {"createRoutineExercise", "updateRoutineExercise", "deleteRoutineExercise"}
            -> "RoutineExercise"

\* the Map of an entity type
StoreOf(m, t) ==
    CASE t = "Workout" -> m.workouts
      [] t = "Exercise" -> m.exercises
      [] t = "ExerciseType" -> m.exerciseTypes
      [] t = "Goal" -> m.goals
      [] t = "WorkoutRoutine" -> m.workoutRoutines
      [] t = "RoutineExercise" -> m.routineExercises

\* the point lookup of an entity type
ReadOf(m, t, id) ==
    CASE t = "Workout" -> Mem_getWorkout(m, id)
      [] t = "Exercise" -> Mem_getExercise(m, id)
      [] t = "ExerciseType" -> Mem_getExerciseType(m, id)
      [] t = "Goal" -> Mem_getGoal(m, id)
      [] t = "WorkoutRoutine" -> Mem_getWorkoutRoutine(m, id)
      [] t = "RoutineExercise" -> Mem_getRoutineExercise(m, id)

\* every point lookup of an id that is not stored answers undefined
MissingReadsNotFound(m) ==
    \A t \in EntityTypes : \A id \in Ids :
        id \notin DOMAIN StoreOf(m, t) => ReadOf(m, t, id) = Undefined

\* C19: for every entity type, a read or an update of an id that is not
\* stored returns undefined and a delete of it returns false; a delete of a
\* stored id returns true, and a delete repeated on the same id returns
\* false.
C19_MissingIdsAreNotErrors ==
    [][nops' = nops + 1
       => /\ MissingReadsNotFound(mem)
          /\ MissingReadsNotFound(mem')
          /\ (/\ last'.op \in UpdateOps
              /\ last'.args.id \notin DOMAIN StoreOf(mem, TypeOf(last'.op)))
                => last'.val = Undefined
          /\ last'.op \in DeleteOps
                => /\ last'.val = (last'.args.id \in DOMAIN StoreOf(mem, TypeOf(last'.op)))
                   /\ (last.op = last'.op /\ last.args = last'.args)
                         => last'.val = FALSE]_vars

\* a goal that was stored has been deleted, and deleting it again was
\* answered false
C19_Witness ==
    /\ last.op = "deleteGoal"
    /\ last.val = FALSE
    /\ \E i \in 1..Len(issued.Goal) : issued.Goal[i] = last.args.id

\* the defaults of the optional fields of an entity type
Defaults(t) ==
    CASE t = "Workout" -> [duration |-> NullNum, notes |-> Null]
      [] t = "Exercise" -> NoFields
      [] t = "ExerciseType" -> [notes |-> Null, description |-> Null, category |-> Null]
      [] t = "Goal" -> [exerciseName |-> Null, targetWeight |-> NullNum,
                        targetReps |-> NullNum, targetDate |-> NullNum,
                        isCompleted |-> FALSE, currentProgress |-> NullNum]
      [] t = "WorkoutRoutine" -> [description |-> Null, category |-> Null]
      [] t = "RoutineExercise" -> [defaultSets |-> 3, defaultReps |-> NullNum,
                                   notes |-> Null]

\* C20: a create stores and returns an entity in which every field of the
\* input has the value of the input, 0 and false included, and in which the
\* optional fields the input lacks have their defaults: Goal.isCompleted
\* false, RoutineExercise.defaultSets 3, the others null.
C20_CreateKeepsSuppliedValues ==
    last.op \in CreateOps
       => LET input == last.args
              entity == last.val
              defaults == Defaults(TypeOf(last.op))
          IN  /\ StoreOf(mem, TypeOf(last.op))[entity.id] = entity
              /\ \A k \in DOMAIN input : entity[k] = input[k]
              /\ \A k \in (DOMAIN defaults) \ (DOMAIN input) :
                    Has(entity, k) /\ entity[k] = defaults[k]

(***************************************************************************)
(* Invariants and frame conditions of MemStorage                           *)
(***************************************************************************)
\* C21: no two stored exercise types have the same name.
C21_ExerciseTypeNamesUnique ==
    \A a, b \in DOMAIN mem.exerciseTypes :
        mem.exerciseTypes[a].name = mem.exerciseTypes[b].name => a = b

\* C22: the workoutId of every stored exercise is the id of a stored workout.
C22_ExercisesReferenceWorkouts ==
    \A e \in DOMAIN mem.exercises : mem.exercises[e].workoutId \in DOMAIN mem.workouts

\* the deletes that address one entity
PlainDeleteOps ==
    {"deleteExerciseType", "deleteExercise", "deleteGoal", "deleteRoutineExercise"}

\* the field of the store that holds the Map of an entity type
FieldOf(t) ==
    CASE t = "Workout" -> "workouts"
      [] t = "Exercise" -> "exercises"
      [] t = "ExerciseType" -> "exerciseTypes"
      [] t = "Goal" -> "goals"
      [] t = "WorkoutRoutine" -> "workoutRoutines"
      [] t = "RoutineExercise" -> "routineExercises"

\* C23: deleteExerciseType, deleteExercise, deleteGoal and
\* deleteRoutineExercise remove at most the addressed entity and leave every
\* other entity, of the same and of every other type, unchanged.
C23_PlainDeletesDoNotCascade ==
    [][(nops' = nops + 1 /\ last'.op \in PlainDeleteOps)
       => LET t == TypeOf(last'.op)
              id == last'.args.id
          IN  /\ DOMAIN StoreOf(mem', t) = (DOMAIN StoreOf(mem, t)) \ {id}
              /\ \A x \in DOMAIN StoreOf(mem', t) : StoreOf(mem', t)[x] = StoreOf(mem, t)[x]
              /\ \A f \in (DOMAIN mem) \ {FieldOf(t)} : mem'[f] = mem[f]]_vars

\* the exercise type 2 was deleted right after an exercise named after it was
\* created, and the exercise is still stored
C23_Witness ==
    /\ last.op = "deleteExerciseType"
    /\ last.args.id = 2
    /\ last.val = TRUE
    /\ nops = 2
    /\ \E e \in DOMAIN mem.exercises : mem.exercises[e].name = "Squat"

\* C27: deleteWorkout(id) for an id that is not a stored workout returns
\* false and leaves the whole store unchanged, the exercises whose workoutId
\* is id included.
C27_DeleteMissingWorkoutChangesNothing ==
    [][(/\ nops' = nops + 1
        /\ last'.op = "deleteWorkout"
        /\ last'.args.id \notin DOMAIN mem.workouts)
       => (last'.val = FALSE /\ mem' = mem)]_vars

(***************************************************************************)
(* Properties of the two stores behind the StorageAdapter                  *)
(***************************************************************************)
\* C28: no value read from the durable store is written into the in-memory
\* store: no in-memory workout gets the name "P", which only the durable
\* workout 1 carries and no caller passes.
C28_NoDurableValueInMemory ==
    \A w \in DOMAIN mem.workouts : mem.workouts[w].name # "P"

\* the rows call pr has inserted into the durable store so far
InsertedWorkouts(pr) == IF pr.loc.workout = Undefined THEN {} ELSE {pr.loc.workout.id}
InsertedExercises(pr) == {pr.loc.exercises[i].id : i \in 1..Len(pr.loc.exercises)}

\* C29: when a call fails in durable-mode and is retried on the in-memory
\* store, the durable store holds nothing its earlier statements wrote: the
\* workout and the exercises a createWorkoutWithExercises inserted before
\* the failure are not stored.
C29_FailedCallLeavesNoDurableEffect ==
    [][\A p \in Procs :
          RetryStep(p) =>
             /\ InsertedWorkouts(proc[p]) \cap DOMAIN pg'.workouts = {}
             /\ InsertedExercises(proc[p]) \cap DOMAIN pg'.exercises = {}]_vars

\* C25: in the durable updateExerciseType a failure of the propagation of
\* the new name is swallowed: the call does not fall back and nothing is
\* rolled back, it goes on with the update of the type, and when that
\* succeeds the type is renamed and the renamed type is returned.
C25_RenameIsBestEffort ==
    [][\A p \in Procs :
          /\ (proc[p].pc \in PropagationStatements /\ proc'[p] # proc[p])
                => /\ usePostgres' = usePostgres
                   /\ proc'[p].pc \in {"updateGoals", "updateExerciseTypeRow"}
                   /\ proc'[p].loc.swallowed => pg' = pg
          /\ (/\ proc[p].pc = "updateExerciseTypeRow"
              /\ proc[p].loc.swallowed
              /\ proc'[p].pc = "idle"
              /\ last'.path = "pg")
                => /\ usePostgres' = usePostgres
                   /\ pg'.exerciseTypes[proc[p].args.id].name = proc[p].args0.partial.name
                   /\ last'.val = pg'.exerciseTypes[proc[p].args.id]
                   /\ pg'.exercises = pg.exercises
                   /\ pg'.goals = pg.goals]_vars

\* the durable store answered a rename of the type "Squat" in durable-mode,
\* and an exercise still has the old name: the propagation had failed
C25_Witness ==
    /\ usePostgres
    /\ last.op = "updateExerciseType"
    /\ last.path = "pg"
    /\ last.val # Undefined
    /\ last.val.name = "Barbell Squat"
    /\ pg.exercises[1].name = "Squat"

\* C26: every operation of IStorage called on the StorageAdapter, as the routes do,
\* is a method of the adapter and is delegated to one of the two stores.
C26_AdapterOffersEveryOperation ==
    last.op \in IStorageOps => last.path \in {"pg", "mem", "retry"}

NamesOf(exercises) == [i \in 1..Len(exercises) |-> exercises[i].name]

\* C24: when two replace requests for the same workout have both been
\* answered, the exercises of the workout are exactly the list of one of the
\* two requests.
C24_ReplaceIsOneRequestsList ==
    (\A p \in Procs : /\ proc[p].pc = "responded"
                      /\ proc[p].status = 200
                      /\ proc[p].workoutId = 1)
       => \E p \in Procs :
             NamesOf(Pg_getExercises(pg, 1)) = NamesOf(proc[p].body.exercises)

(***************************************************************************)
(* Properties of convertRoutineToWorkout                                   *)
(***************************************************************************)
\* the arrangements of the set S in a sequence
Arrangements(S) ==
    {f \in [1..Cardinality(S) -> S] : \A i, j \in 1..Cardinality(S) : f[i] = f[j] => i = j}

\* the routine exercises of the routine whose exercise type is stored
Convertible(m, routineId) ==
    {re \in DOMAIN m.routineExercises :
        /\ m.routineExercises[re].routineId = routineId
        /\ m.routineExercises[re].exerciseTypeId \in DOMAIN m.exerciseTypes}

\* the sets the claim gives the exercise made from routine exercise re:
\* defaultSets (3 if unset) sets of defaultReps (10 if unset) repetitions
\* and of the weight of the latest set of the name, or 0
SetsFor(m, re) ==
    LET routineExercise == m.routineExercises[re]
        name == m.exerciseTypes[routineExercise.exerciseTypeId].name
        count == IF routineExercise.defaultSets = NullNum THEN 3
                 ELSE routineExercise.defaultSets
        reps == IF routineExercise.defaultReps = NullNum THEN 10
                ELSE routineExercise.defaultReps
        latestSet == Mem_getLatestExerciseSet(m, name)
        weight == IF latestSet = NullObj THEN 0 ELSE latestSet.weight
    IN  [i \in 1..count |-> [weight |-> weight, reps |-> reps]]

\* the call made the workout w and the exercises of the ids in made, one for
\* each convertible routine exercise, in the order of orderIndex
ConvertedAs(m, m2, routineId, data, w, made) ==
    /\ m2.workouts[w].name = IF Has(data, "name") THEN data.name
                             ELSE m.workoutRoutines[routineId].name
    /\ \E from \in Arrangements(Convertible(m, routineId)) :
          /\ Len(from) = Len(made)
          /\ \A i, j \in 1..Len(from) :
                i < j => m.routineExercises[from[i]].orderIndex
                            <= m.routineExercises[from[j]].orderIndex
          /\ \A i \in 1..Len(from) :
                LET exercise == m2.exercises[made[i]]
                    routineExercise == m.routineExercises[from[i]]
                IN  /\ exercise.workoutId = w
                    /\ exercise.name =
                          m.exerciseTypes[routineExercise.exerciseTypeId].name
                    /\ exercise.sets = SetsFor(m, from[i])

\* C30: convertRoutineToWorkout of a missing routine throws and leaves the
\* store unchanged; of a stored routine it adds exactly one workout, named
\* data.name or, when data has no name, after the routine, and one exercise
\* for each routine exercise whose type is stored, in orderIndex order, named
\* after the type, of the new workout, with defaultSets (3 if unset) equal
\* sets of defaultReps (10 if unset) and the weight of the latest set of that
\* name or 0.
C30_ConvertRoutineToWorkout ==
    [][(nops' = nops + 1 /\ last'.op = "convertRoutineToWorkout") =>
          LET routineId == last'.args.routineId
              newWorkouts == (DOMAIN mem'.workouts) \ (DOMAIN mem.workouts)
              newExercises == (DOMAIN mem'.exercises) \ (DOMAIN mem.exercises)
          IN  IF routineId \notin DOMAIN mem.workoutRoutines
              THEN last'.val = Thrown /\ mem' = mem
              ELSE /\ Cardinality(newWorkouts) = 1
                   /\ \A x \in DOMAIN mem.workouts : mem'.workouts[x] = mem.workouts[x]
                   /\ \A x \in DOMAIN mem.exercises : mem'.exercises[x] = mem.exercises[x]
                   /\ \A w \in newWorkouts :
                         ConvertedAs(mem, mem', routineId, last'.args.data, w,
                                     SetToSeq(newExercises))]_vars

====
